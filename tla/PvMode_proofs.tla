----------------------------- MODULE PvMode_proofs -----------------------------
(***************************************************************************)
(* Proofs about PvMode, for any sizes of the browser's window and any      *)
(* number of changes and commands: type correctness, that the metrics USER *)
(* has are those of the layout and the screen, and, as long as the         *)
(* adapter's counter of requests does not come round to a value that PVMON *)
(* remembers, that PVMON never takes half of a request for a size.         *)
(***************************************************************************)
EXTENDS PvMode, SequenceTheorems, TLAPS

-----------------------------------------------------------------------------
(* Sizes and sequences.                                                    *)

LEMMA SizesArePairs ==
  /\ Sizes \subseteq Nat \X Nat /\ PhoneSize \in Sizes
  /\ \A v \in Viewports : ~Narrow(v) => DesktopSize(v) \in Sizes
<1>1. \A x \in Int : Clamp(x, 640, 2560) \in Nat /\ Clamp(x, 400, 1600) \in Nat
  BY DEF Clamp
<1>2. ASSUME NEW v \in Viewports PROVE DesktopSize(v) \in Nat \X Nat
  <2>1. v[1] \in Nat /\ v[2] \in Nat
    BY PvModeAssumption
  <2> DEFINE w == (v[1] \div 8) * 8
  <2> DEFINE h == (v[2] \div 2) * 2
  <2>2. w \in Int /\ h \in Int
    BY <2>1
  <2>3. DesktopSize(v) = <<Clamp(w, 640, 2560), Clamp(h, 400, 1600)>>
    BY DEF DesktopSize
  <2> HIDE DEF w, h
  <2>4. Clamp(w, 640, 2560) \in Nat /\ Clamp(h, 400, 1600) \in Nat
    BY <1>1, <2>2
  <2> QED BY <2>3, <2>4
<1>3. PhoneSize \in Nat \X Nat
  BY DEF PhoneSize
<1> QED BY <1>2, <1>3 DEF Sizes

\* Whatever the window, the simulated phone and the layout: what is asked for is a size.
LEMMA ModeIsSize ==
  ASSUME NEW v \in Viewports, NEW s, NEW l
  PROVE  Mode(v, s, l) \in Sizes /\ Wanted(v, s) \in Layouts
<1>1. Wanted(v, s) = "D" => ~Narrow(v)
  BY DEF Wanted
<1> QED BY <1>1, SizesArePairs DEF Mode, Wanted, Layouts

LEMMA HeadTail ==
  ASSUME NEW S, NEW s \in Seq(S), s # <<>>
  PROVE  Head(s) \in S /\ Tail(s) \in Seq(S)
BY HeadTailProperties

LEMMA AppendType ==
  ASSUME NEW S, NEW s \in Seq(S), NEW e \in S
  PROVE  Append(s, e) \in Seq(S)
BY AppendProperties

-----------------------------------------------------------------------------
(* Types.                                                                  *)

Reading == [gen : Word, w : Nat, h : Nat, dw : Nat]
Pcs == {"idle", "width", "height", "command", "decide", "driverWidth", "driverHeight", "exited"}

\* Of PVMON's two counts of polls, each reaches its limit only where it is about
\* to be used or no longer is.
StableOK ==
  stable \in 0 .. 3 /\ (pc \notin {"driverWidth", "driverHeight", "exited"} => stable # 3)
SwitchOK ==
  switching \in BOOLEAN /\ switchPolls \in 0 .. 3 /\ (switching = TRUE => switchPolls # 3)
PcOK   == pc \in Pcs
ReadOK == got \in Reading

TypeInv == TypeOK /\ PcOK /\ ReadOK /\ StableOK /\ SwitchOK

\* TypeOK in two parts, the page's with the messages and the guest's.
PageOK ==
  /\ viewport \in Viewports /\ sim \in BOOLEAN /\ changes \in 0 .. MaxChanges
  /\ guestLayout \in Layouts \cup {"null"} /\ lastReq \in Sizes
  /\ candidate \in Sizes \cup {<<>>} /\ recent \in BOOLEAN
  /\ requests \in Seq(Sizes) /\ commands \in Seq(Layouts \cup {"R"})
  /\ lines \in Seq(Layouts \cup {"A"})
GuestOK ==
  /\ host \in Sizes /\ generation \in Word /\ lastGen \in Word
  /\ screen \in Nat \X Nat /\ real \in Nat \X Nat /\ want \in Nat \X Nat
  /\ layout \in Layouts

LEMMA TypeParts ==
  /\ TypeInv <=> PageOK /\ GuestOK /\ StableOK /\ SwitchOK /\ PcOK /\ ReadOK
  /\ TypeInv' <=> PageOK' /\ GuestOK' /\ StableOK' /\ SwitchOK' /\ PcOK' /\ ReadOK'
<1>1. TypeInv <=> PageOK /\ GuestOK /\ StableOK /\ SwitchOK /\ PcOK /\ ReadOK
  BY DEF TypeInv, TypeOK, PageOK, GuestOK, StableOK, SwitchOK, SettlePolls
<1>2. TypeInv' <=> PageOK' /\ GuestOK' /\ StableOK' /\ SwitchOK' /\ PcOK' /\ ReadOK'
  BY <1>1, PTL
<1> QED BY <1>1, <1>2

LEMMA ReadingTypes ==
  /\ NothingRead \in Reading /\ 0 \in Word
  /\ \A g \in Word : g \in Nat /\ (g + 1) % 65536 \in Word
<1>1. 0 \in Word /\ \A g \in Word : g \in Nat /\ (g + 1) % 65536 \in Word
  BY DEF Word
<1> QED BY <1>1 DEF NothingRead, Reading

\* No switch is under way.
LEMMA SwitchOff ==
  /\ switching = FALSE /\ switchPolls = 0 => SwitchOK
  /\ switching' = FALSE /\ switchPolls' = 0 => SwitchOK'
  /\ switching' = TRUE /\ switchPolls' = 0 => SwitchOK'
<1>1. 0 \in 0 .. 3 /\ 0 # 3
  OBVIOUS
<1> QED BY <1>1, Zenon DEF SwitchOK

LEMMA RestoredType ==
  ASSUME NEW l \in Layouts, NEW s \in Sizes, Restored(l, s)
  PROVE  GuestOK /\ StableOK /\ SwitchOK /\ PcOK /\ ReadOK
<1>1. s \in Nat \X Nat
  BY SizesArePairs
<1>2. GuestOK
  BY <1>1, ReadingTypes DEF Restored, GuestOK
<1>3. StableOK /\ PcOK
  BY DEF Restored, StableOK, PcOK, Pcs
<1>4. SwitchOK
  <2>1. switching = FALSE /\ switchPolls = 0
    BY DEF Restored
  <2> QED BY <2>1, SwitchOff
<1>5. ReadOK
  BY ReadingTypes DEF Restored, ReadOK
<1> QED BY <1>2, <1>3, <1>4, <1>5

LEMMA TypeInit == Init => TypeInv
<1> SUFFICES ASSUME Init PROVE TypeInv
  OBVIOUS
<1>1. PICK l \in Layouts, s \in Sizes : Restored(l, s)
  BY SizesArePairs DEF Init, Layouts
<1>2. viewport \in Viewports /\ sim \in BOOLEAN /\ changes \in 0 .. MaxChanges
  <2>1. viewport \in Viewports /\ sim = FALSE /\ changes = 0
    BY DEF Init
  <2>2. sim \in BOOLEAN
    BY <2>1
  <2>3. changes \in 0 .. MaxChanges
    BY <2>1, PvModeAssumption
  <2> QED BY <2>1, <2>2, <2>3
<1>3. guestLayout = "null" /\ lastReq \in Sizes /\ candidate = <<>> /\ recent \in BOOLEAN
  BY SizesArePairs DEF Init, Loaded
<1>4. requests \in Seq(Sizes) /\ commands \in Seq(Layouts \cup {"R"}) /\ lines \in Seq(Layouts \cup {"A"})
  <2>1. requests = <<PhoneSize>> /\ commands = <<"R">> /\ lines = <<>>
    BY DEF Init, Loaded
  <2> QED BY <2>1, SizesArePairs
<1>5. PageOK
  BY <1>2, <1>3, <1>4 DEF PageOK
<1> QED BY <1>1, <1>5, RestoredType, TypeParts

\* The page's steps.
LEMMA SyncType ==
  ASSUME PageOK, NEW l, NEW w \in Layouts, Sync(l, w)
  PROVE  commands' \in Seq(Layouts \cup {"R"}) /\ recent' \in BOOLEAN
<1>1. commands \in Seq(Layouts \cup {"R"}) /\ recent \in BOOLEAN /\ w \in Layouts \cup {"R"}
  BY DEF PageOK
<1>2. Append(commands, w) \in Seq(Layouts \cup {"R"})
  BY <1>1, AppendType
<1> QED BY <1>1, <1>2 DEF Sync

LEMMA RequestType ==
  ASSUME PageOK, NEW m \in Sizes, RequestMode(m)
  PROVE  lastReq' \in Sizes /\ requests' \in Seq(Sizes)
BY AppendType DEF RequestMode, PageOK

LEMMA PageTypes == TypeInv /\ Page => TypeInv'
<1> SUFFICES ASSUME TypeInv, Page PROVE TypeInv'
  OBVIOUS
<1>t. PageOK /\ GuestOK /\ StableOK /\ SwitchOK /\ PcOK /\ ReadOK
  BY TypeParts
<1>g. UNCHANGED <<deviceVars, guestVars>>
  BY DEF Page, Resize, Pump, SetPhoneSim, ThreeSeconds, TakeLine
<1>1. ASSUME viewport' \in Viewports, sim' \in BOOLEAN, changes' \in 0 .. MaxChanges, guestLayout' \in Layouts \cup {"null"},
             lastReq' \in Sizes, candidate' \in Sizes \cup {<<>>}, recent' \in BOOLEAN, requests' \in Seq(Sizes),
             commands' \in Seq(Layouts \cup {"R"}), lines' \in Seq(Layouts \cup {"A"})
      PROVE  TypeInv'
  <2>1. PageOK'
    BY <1>1 DEF PageOK
  <2>2. GuestOK'
    BY <1>t, <1>g DEF GuestOK, deviceVars, guestVars, modeVars, pollVars
  <2>3. StableOK' /\ PcOK' /\ ReadOK'
    BY <1>t, <1>g DEF StableOK, PcOK, ReadOK, guestVars, pollVars
  <2>4. SwitchOK'
    BY <1>t, <1>g DEF SwitchOK, guestVars, pollVars
  <2> QED BY <2>1, <2>2, <2>3, <2>4, TypeParts
<1>w. Wanted(viewport, sim) \in Layouts /\ \A l : Mode(viewport, sim, l) \in Sizes
  BY <1>t, ModeIsSize DEF PageOK
<1>2. CASE Resize
  <2>1. changes' \in 0 .. MaxChanges
    BY <1>2, <1>t, PvModeAssumption DEF Resize, PageOK
  <2> QED BY <1>1, <1>2, <1>t, <2>1 DEF Resize, PageOK, wireVars
<1>3. CASE Pump
  <2> DEFINE m == Mode(viewport, sim, guestLayout)
  <2>1. m \in Sizes
    BY <1>w
  <2>2. Sync(guestLayout, Wanted(viewport, sim)) /\ UNCHANGED <<viewport, sim, changes, guestLayout, lines>>
    BY <1>3 DEF Pump
  <2>3. candidate' \in {m, candidate} /\ (RequestMode(m) \/ UNCHANGED <<lastReq, requests>>)
    BY <1>3 DEF Pump
  <2> HIDE DEF m
  <2>4. lastReq' \in Sizes /\ requests' \in Seq(Sizes) /\ candidate' \in Sizes \cup {<<>>}
    BY <1>t, <2>1, <2>3, RequestType DEF PageOK
  <2>5. commands' \in Seq(Layouts \cup {"R"}) /\ recent' \in BOOLEAN
    BY <1>t, <1>w, <2>2, SyncType
  <2> QED BY <1>1, <1>t, <2>2, <2>4, <2>5 DEF PageOK
<1>4. CASE SetPhoneSim
  <2>1. changes' \in 0 .. MaxChanges /\ sim' \in BOOLEAN
    BY <1>4, <1>t, PvModeAssumption DEF SetPhoneSim, PageOK
  <2>2. Mode(viewport, sim', guestLayout) \in Sizes /\ Wanted(viewport, sim') \in Layouts
    BY <1>t, <2>1, ModeIsSize DEF PageOK
  <2>3. RequestMode(Mode(viewport, sim', guestLayout)) /\ Sync(guestLayout, Wanted(viewport, sim'))
    BY <1>4 DEF SetPhoneSim
  <2>4. lastReq' \in Sizes /\ requests' \in Seq(Sizes)
    BY <1>t, <2>2, <2>3, RequestType
  <2>5. commands' \in Seq(Layouts \cup {"R"}) /\ recent' \in BOOLEAN
    BY <1>t, <2>2, <2>3, SyncType
  <2> QED BY <1>1, <1>4, <1>t, <2>1, <2>4, <2>5 DEF SetPhoneSim, PageOK
<1>5. CASE ThreeSeconds
  BY <1>1, <1>5, <1>t DEF ThreeSeconds, PageOK, wireVars
<1>6. CASE TakeLine
  <2> DEFINE l == IF Head(lines) = "A" THEN guestLayout ELSE Head(lines)
  <2>1. /\ lines # <<>> /\ lines' = Tail(lines) /\ guestLayout' = l
        /\ RequestMode(Mode(viewport, sim, l)) \/ UNCHANGED <<lastReq, requests>>
        /\ Sync(l, Wanted(viewport, sim)) \/ UNCHANGED <<commands, recent>>
        /\ UNCHANGED <<viewport, sim, changes, candidate>>
    BY <1>6 DEF TakeLine
  <2>2. Head(lines) \in Layouts \cup {"A"} /\ lines' \in Seq(Layouts \cup {"A"})
    BY <1>t, <2>1, HeadTail DEF PageOK
  <2>3. l \in Layouts \cup {"null"}
    BY <1>t, <2>2 DEF PageOK
  <2> HIDE DEF l
  <2>4. lastReq' \in Sizes /\ requests' \in Seq(Sizes)
    BY <1>t, <1>w, <2>1, RequestType DEF PageOK
  <2>5. commands' \in Seq(Layouts \cup {"R"}) /\ recent' \in BOOLEAN
    BY <1>t, <1>w, <2>1, SyncType DEF PageOK
  <2> QED BY <1>1, <1>t, <2>1, <2>2, <2>3, <2>4, <2>5 DEF PageOK
<1> QED BY <1>2, <1>3, <1>4, <1>5, <1>6 DEF Page

LEMMA RequestTypes == TypeInv /\ TakeRequest => TypeInv'
<1> SUFFICES ASSUME TypeInv, TakeRequest PROVE TypeInv'
  OBVIOUS
<1>t. PageOK /\ GuestOK /\ StableOK /\ SwitchOK /\ PcOK /\ ReadOK
  BY TypeParts
<1>1. /\ requests # <<>> /\ requests' = Tail(requests) /\ UNCHANGED <<pageVars, commands, lines, guestVars>>
      /\ UNCHANGED deviceVars \/ (host' = Head(requests) /\ generation' = (generation + 1) % 65536)
  BY DEF TakeRequest
<1>2. Head(requests) \in Sizes /\ requests' \in Seq(Sizes)
  BY <1>t, <1>1, HeadTail DEF PageOK
<1>3. PageOK'
  BY <1>t, <1>1, <1>2 DEF PageOK, pageVars
<1>4. host' \in Sizes /\ generation' \in Word
  BY <1>t, <1>1, <1>2, ReadingTypes DEF GuestOK, deviceVars
<1>5. GuestOK'
  BY <1>t, <1>1, <1>4 DEF GuestOK, guestVars, modeVars, pollVars
<1>6. StableOK' /\ PcOK' /\ ReadOK'
  BY <1>t, <1>1 DEF StableOK, PcOK, ReadOK, guestVars, pollVars
<1>7. SwitchOK'
  BY <1>t, <1>1 DEF SwitchOK, guestVars, pollVars
<1> QED BY <1>3, <1>5, <1>6, <1>7, TypeParts

\* PVMON's and the driver's steps.
LEMMA GuestTypes == TypeInv /\ Guest => TypeInv'
<1> SUFFICES ASSUME TypeInv, Guest PROVE TypeInv'
  OBVIOUS
<1>t. PageOK /\ GuestOK /\ StableOK /\ SwitchOK /\ PcOK /\ ReadOK
  BY TypeParts
<1>h. host[1] \in Nat /\ host[2] \in Nat /\ generation \in Word
  <2>1. host \in Sizes /\ generation \in Word
    BY <1>t DEF GuestOK
  <2> QED BY <2>1, SizesArePairs
<1>a. lines \in Seq(Layouts \cup {"A"}) /\ Append(lines, "A") \in Seq(Layouts \cup {"A"})
  <2>1. lines \in Seq(Layouts \cup {"A"}) /\ "A" \in Layouts \cup {"A"}
    BY <1>t DEF PageOK
  <2> QED BY <2>1, AppendType
<1>1. CASE Reads
  <2>1. UNCHANGED <<pageVars, wireVars, deviceVars, modeVars, pollVars>>
    BY <1>1 DEF Reads, ReadGeneration, ReadWidth, ReadHeight, DriverWidth
  <2>2. ReadOK'
    <3>1. CASE ReadGeneration
      BY <1>t, <1>h, <3>1 DEF ReadGeneration, Reading, ReadOK
    <3>2. CASE ReadWidth
      BY <1>t, <1>h, <3>2 DEF ReadWidth, Reading, ReadOK
    <3>3. CASE ReadHeight
      BY <1>t, <1>h, <3>3 DEF ReadHeight, Reading, ReadOK
    <3>4. CASE DriverWidth
      BY <1>t, <1>h, <3>4 DEF DriverWidth, Reading, ReadOK
    <3> QED BY <1>1, <3>1, <3>2, <3>3, <3>4 DEF Reads
  <2>3. \/ pc \in {"idle", "width", "height"} /\ pc' \in {"width", "height", "command"}
        \/ pc = "driverWidth" /\ pc' = "driverHeight"
    BY <1>1 DEF Reads, ReadGeneration, ReadWidth, ReadHeight, DriverWidth
  <2>4. PageOK' /\ GuestOK'
    BY <1>t, <2>1 DEF PageOK, GuestOK, pageVars, wireVars, deviceVars, modeVars, pollVars
  <2>5. StableOK' /\ PcOK'
    BY <1>t, <2>1, <2>3 DEF StableOK, pollVars, PcOK, Pcs
  <2>6. SwitchOK'
    BY <1>t, <2>1 DEF SwitchOK, pollVars
  <2> QED BY <2>2, <2>4, <2>5, <2>6, TypeParts
<1>2. CASE NoCommand
  <2>1. UNCHANGED <<pageVars, wireVars, deviceVars, modeVars, pollVars, got>> /\ pc = "command" /\ pc' = "decide"
    BY <1>2 DEF NoCommand
  <2>2. PageOK' /\ GuestOK'
    BY <1>t, <2>1 DEF PageOK, GuestOK, pageVars, wireVars, deviceVars, modeVars, pollVars
  <2>3. StableOK' /\ PcOK' /\ ReadOK'
    BY <1>t, <2>1 DEF StableOK, pollVars, PcOK, Pcs, ReadOK
  <2>4. SwitchOK'
    BY <1>t, <2>1 DEF SwitchOK, pollVars
  <2> QED BY <2>2, <2>3, <2>4, TypeParts
<1>3. CASE RunCommand
  <2> DEFINE l == IF Head(commands) = "R" THEN layout ELSE Head(commands)
  <2> DEFINE answer == IF Head(commands) = "R" THEN <<l, "A">> ELSE <<l>>
  <2>1. /\ pc = "command" /\ pc' = "decide" /\ commands # <<>> /\ commands' = Tail(commands) /\ layout' = l
        /\ lines' = lines \o answer
        /\ UNCHANGED <<switching, switchPolls>> \/ (switching' = TRUE /\ switchPolls' = 0)
        /\ UNCHANGED <<pageVars, requests, deviceVars, screen, real, done, lastGen, want, stable, got>>
    BY <1>3 DEF RunCommand
  <2>2. Head(commands) \in Layouts \cup {"R"} /\ commands' \in Seq(Layouts \cup {"R"})
    BY <1>t, <2>1, HeadTail DEF PageOK
  <2>3. l \in Layouts
    BY <1>t, <2>2 DEF GuestOK
  <2>4. answer \in Seq(Layouts \cup {"A"})
    <3> HIDE DEF l
    <3>1. l \in Layouts \cup {"A"} /\ "A" \in Layouts \cup {"A"}
      BY <2>3
    <3>2. <<l, "A">> \in Seq(Layouts \cup {"A"}) /\ <<l>> \in Seq(Layouts \cup {"A"})
      BY <3>1
    <3> QED BY <3>2
  <2> HIDE DEF l, answer
  <2>5. lines' \in Seq(Layouts \cup {"A"})
    BY <1>a, <2>1, <2>4, ConcatProperties
  <2>6. PageOK'
    BY <1>t, <2>1, <2>2, <2>5 DEF PageOK, pageVars
  <2>7. GuestOK'
    BY <1>t, <2>1, <2>3 DEF GuestOK, deviceVars
  <2>8. StableOK' /\ PcOK' /\ ReadOK'
    BY <1>t, <2>1 DEF StableOK, PcOK, Pcs, ReadOK
  <2>9. SwitchOK'
    <3>1. CASE UNCHANGED <<switching, switchPolls>>
      BY <1>t, <3>1 DEF SwitchOK
    <3> QED BY <2>1, <3>1, SwitchOff
  <2> QED BY <2>6, <2>7, <2>8, <2>9, TypeParts
<1>4. CASE Decide
  <2> DEFINE size  == <<got.w, got.h>>
  <2> DEFINE moved == ~(got.gen # lastGen) /\ size # want
  <2> DEFINE met   == ~moved /\ size \in {real, done}
  <2> DEFINE count == (IF got.gen # lastGen THEN 0 ELSE stable) + 1
  <2> DEFINE ends  == met /\ switching /\ switchPolls + 1 >= 3
  <2>1. /\ pc = "decide" /\ lastGen' = got.gen /\ want' = size
        /\ stable' = (IF moved \/ met THEN 0 ELSE count)
        /\ switchPolls' = (IF met /\ switching THEN switchPolls + 1 ELSE switchPolls)
        /\ switching' = (switching /\ ~ends)
        /\ lines' = (IF ends THEN Append(lines, "A") ELSE lines)
        /\ IF ~moved /\ ~met /\ count >= 3
           THEN pc' = "driverWidth" /\ UNCHANGED got
           ELSE pc' = "idle" /\ got' = NothingRead
        /\ UNCHANGED <<pageVars, requests, commands, deviceVars, modeVars>>
    BY <1>4, Zenon DEF Decide, SettlePolls
  <2> HIDE DEF size, moved, met, count, ends
  <2>2. got.gen \in Word /\ size \in Nat \X Nat
    BY <1>t DEF Reading, ReadOK, size
  <2>3. pc = "decide"
    BY <2>1
  <2>4. stable \in 0 .. 2
    BY <1>t, <2>3 DEF StableOK
  <2>5. count \in 1 .. 3
    BY <2>4 DEF count
  <2>6. stable' \in 0 .. 3 /\ (pc' = "idle" => stable' # 3)
    BY <2>1, <2>5
  <2>7. pc' \in {"idle", "driverWidth"} /\ got' \in {got, NothingRead}
    BY <2>1
  <2>8. SwitchOK'
    <3>1. switching \in BOOLEAN /\ switchPolls \in 0 .. 3 /\ (switching = TRUE => switchPolls # 3)
      BY <1>t DEF SwitchOK
    <3>2. switchPolls' = (IF met /\ switching THEN switchPolls + 1 ELSE switchPolls) /\ switching' = (switching /\ ~ends)
      BY <2>1
    <3>3. CASE switching = FALSE
      BY <3>1, <3>2, <3>3 DEF SwitchOK
    <3>4. CASE switching = TRUE /\ met = TRUE
      <4>1. switchPolls \in 0 .. 2 /\ switchPolls' = switchPolls + 1
        BY <3>1, <3>2, <3>4
      <4>2. switching' \in BOOLEAN /\ (switching' = TRUE => ~ends)
        BY <3>2
      <4>3. ~ends => switchPolls + 1 < 3
        BY <3>4, <4>1 DEF ends
      <4> HIDE DEF ends
      <4> QED BY <4>1, <4>2, <4>3 DEF SwitchOK
    <3>5. CASE switching = TRUE /\ met = FALSE
      BY <3>1, <3>2, <3>5 DEF SwitchOK
    <3> QED BY <3>1, <3>3, <3>4, <3>5 DEF met
  <2>9. StableOK' /\ PcOK'
    BY <2>6, <2>7 DEF StableOK, PcOK, Pcs
  <2>10. lines' \in {lines, Append(lines, "A")} /\ UNCHANGED <<pageVars, requests, commands, deviceVars, modeVars>>
    BY <2>1
  <2>11. PageOK'
    BY <1>t, <1>a, <2>10 DEF PageOK, pageVars
  <2>12. lastGen' \in Word /\ want' \in Nat \X Nat
    BY <2>1, <2>2
  <2>13. GuestOK'
    BY <1>t, <2>10, <2>12 DEF GuestOK, deviceVars, modeVars
  <2>14. ReadOK'
    BY <1>t, <2>7, ReadingTypes DEF ReadOK
  <2> QED BY <2>8, <2>9, <2>11, <2>13, <2>14, TypeParts
<1>5. CASE Remode
  <2>1. /\ pc' = "idle" /\ got' = NothingRead /\ screen' = <<got.dw, host[2]>> /\ real' = <<got.w, got.h>>
        /\ stable' = 0 /\ switching' = FALSE /\ lines' \in {lines, Append(lines, "A")}
        /\ UNCHANGED <<pageVars, requests, commands, deviceVars, layout, lastGen, want, switchPolls>>
    BY <1>5 DEF Remode, Recorded
  <2>2. screen' \in Nat \X Nat /\ real' \in Nat \X Nat
    BY <1>t, <1>h, <2>1 DEF Reading, ReadOK
  <2>3. PageOK'
    BY <1>t, <1>a, <2>1 DEF PageOK, pageVars
  <2>4. GuestOK'
    BY <1>t, <2>1, <2>2 DEF GuestOK, deviceVars
  <2>5. StableOK' /\ PcOK' /\ ReadOK'
    BY <2>1, ReadingTypes DEF StableOK, PcOK, Pcs, ReadOK
  <2>6. SwitchOK'
    BY <1>t, <2>1 DEF SwitchOK
  <2> QED BY <2>3, <2>4, <2>5, <2>6, TypeParts
<1>6. CASE Exit
  <2>1. (pc' = "exited" /\ stable' = stable) \/ (pc' = "idle" /\ stable' = 0)
    BY <1>6 DEF Exit
  <2>2. got' = NothingRead /\ UNCHANGED <<pageVars, wireVars, deviceVars, modeVars, lastGen, want, switching, switchPolls>>
    BY <1>6 DEF Exit
  <2>3. PageOK' /\ GuestOK'
    BY <1>t, <2>2 DEF PageOK, GuestOK, pageVars, wireVars, deviceVars, modeVars
  <2>4. StableOK' /\ PcOK' /\ ReadOK'
    BY <1>t, <2>1, <2>2, ReadingTypes DEF StableOK, PcOK, Pcs, ReadOK
  <2>5. SwitchOK'
    BY <1>t, <2>2 DEF SwitchOK
  <2> QED BY <2>3, <2>4, <2>5, TypeParts
<1>7. CASE Restart
  <2>1. /\ guestLayout' = "null" /\ lastReq' = PhoneSize /\ candidate' = <<>> /\ recent' = FALSE
        /\ requests' = <<PhoneSize>> /\ commands' = <<"R">> /\ lines' = <<>>
        /\ UNCHANGED <<viewport, sim, changes>>
    BY <1>7 DEF Restart
  <2>2. /\ host' = PhoneSize /\ generation' = 0 /\ screen' = PhoneSize
        /\ pc' = "idle" /\ got' = NothingRead /\ lastGen' = 0 /\ want' = PhoneSize /\ stable' = 0
        /\ real' = PhoneSize /\ layout' = "P" /\ switching' = FALSE /\ switchPolls' = 0
    BY <1>7 DEF Restart
  <2>3. requests' \in Seq(Sizes) /\ commands' \in Seq(Layouts \cup {"R"}) /\ lines' \in Seq(Layouts \cup {"A"})
    BY <2>1, SizesArePairs
  <2>4. PhoneSize \in Nat \X Nat /\ PhoneSize \in Sizes
    BY SizesArePairs
  <2>5. PageOK'
    BY <1>t, <2>1, <2>3, <2>4 DEF PageOK
  <2>6. GuestOK'
    BY <2>2, <2>4, ReadingTypes DEF GuestOK, Layouts
  <2>7. StableOK' /\ PcOK' /\ ReadOK'
    BY <2>2, ReadingTypes DEF StableOK, PcOK, Pcs, ReadOK
  <2>8. SwitchOK'
    BY <2>2, SwitchOff
  <2> QED BY <2>5, <2>6, <2>7, <2>8, TypeParts
<1> QED BY <1>1, <1>2, <1>3, <1>4, <1>5, <1>6, <1>7 DEF Guest

LEMMA TypeNext == TypeInv /\ [Next]_vars => TypeInv'
<1>1. TypeInv /\ UNCHANGED vars => TypeInv'
  <2> SUFFICES ASSUME TypeInv, UNCHANGED vars PROVE TypeInv'
    OBVIOUS
  <2>1. PageOK /\ GuestOK /\ StableOK /\ SwitchOK /\ PcOK /\ ReadOK
    BY TypeParts
  <2>2. PageOK'
    BY <2>1 DEF PageOK, vars, pageVars, wireVars
  <2>3. GuestOK'
    BY <2>1 DEF GuestOK, vars, deviceVars, guestVars, modeVars, pollVars
  <2>4. StableOK' /\ PcOK' /\ ReadOK'
    BY <2>1 DEF StableOK, PcOK, ReadOK, vars, guestVars, pollVars
  <2>5. SwitchOK'
    BY <2>1 DEF SwitchOK, vars, guestVars, pollVars
  <2> QED BY <2>2, <2>3, <2>4, <2>5, TypeParts
<1> QED BY <1>1, PageTypes, RequestTypes, GuestTypes DEF Next

\* Every reachable state is well typed, for any window and any number of changes;
\* neither of PVMON's counts of polls runs past the number it waits for.
THEOREM TypeCorrect == Spec => []TypeOK
<1>1. TypeInv => TypeOK
  BY DEF TypeInv
<1> QED BY <1>1, TypeInit, TypeNext, PTL DEF Spec

-----------------------------------------------------------------------------
(* The metrics of USER.                                                    *)

LEMMA MetricsInit == Init => MetricsFollow
<1> SUFFICES ASSUME Init PROVE MetricsFollow
  OBVIOUS
<1>1. PICK l, s : Restored(l, s)
  BY DEF Init
<1> QED BY <1>1 DEF Restored, MetricsFollow

LEMMA MetricsNext == MetricsFollow /\ [Next]_vars => MetricsFollow'
<1> SUFFICES ASSUME MetricsFollow, [Next]_vars PROVE MetricsFollow'
  OBVIOUS
<1>0. ASSUME UNCHANGED modeVars PROVE MetricsFollow'
  BY <1>0 DEF MetricsFollow, modeVars, Told
<1>1. CASE Page \/ TakeRequest \/ UNCHANGED vars
  <2>1. UNCHANGED guestVars
    BY <1>1 DEF Page, Resize, Pump, SetPhoneSim, ThreeSeconds, TakeLine, TakeRequest, vars
  <2> QED BY <1>0, <2>1 DEF guestVars
<1>2. CASE Reads \/ NoCommand \/ Decide \/ Exit
  BY <1>0, <1>2 DEF Reads, ReadGeneration, ReadWidth, ReadHeight, DriverWidth, NoCommand, Decide, Exit
<1>3. CASE RunCommand
  <2> DEFINE l == IF Head(commands) = "R" THEN layout ELSE Head(commands)
  <2>1. /\ layout' = l /\ UNCHANGED real
        /\ (l = layout /\ UNCHANGED metrics) \/ metrics' = Told(l, real)
    BY <1>3 DEF RunCommand
  <2> HIDE DEF l
  <2> QED BY <2>1 DEF MetricsFollow, Told
<1>4. CASE Remode
  <2>1. real' = <<got.w, got.h>> /\ metrics' = Told(layout, <<got.w, got.h>>) /\ UNCHANGED layout
    BY <1>4 DEF Remode, Recorded
  <2> QED BY <2>1 DEF MetricsFollow, Told
<1>5. CASE Restart
  <2>1. real' = PhoneSize /\ layout' = "P" /\ metrics' = Frame
    BY <1>5 DEF Restart
  <2> QED BY <2>1 DEF MetricsFollow, Told
<1> QED BY <1>1, <1>2, <1>3, <1>4, <1>5 DEF Next, Guest

\* In whatever order commands and sizes come, USER's metrics are those of PVMON's
\* layout on the screen that PVMON has made.
THEOREM MetricsAgree == Spec => []MetricsFollow
BY MetricsInit, MetricsNext, PTL DEF Spec

-----------------------------------------------------------------------------
(* Sizes.                                                                  *)

\* PVMON is between its reading of the generation and its decision.
AtPoll == pc \in {"width", "height", "command", "decide"}

\* As long as PVMON has the latest generation, its size is the adapter's.
LatestInv == generation = lastGen => want = host

\* What a poll has read is the adapter's, unless a request came in between; a
\* poll that finds the last one's generation was preceded by one that read a whole
\* size; and what is acted upon is a size.
ReadsInv ==
  /\ pc = "height" /\ generation = got.gen => got.w = host[1]
  /\ pc \in {"command", "decide"} /\ generation = got.gen => <<got.w, got.h>> = host
  /\ AtPoll /\ got.gen = lastGen => want \in Sizes
  /\ pc \in {"driverWidth", "driverHeight"} => <<got.w, got.h>> \in Sizes

WholeInv == LatestInv /\ ReadsInv /\ WholeSize

\* A request does not bring the counter of 16 bits round to a value that PVMON
\* remembers, as the 65536th between two of its polls would.
NotRound ==
  TakeRequest /\ host' # host =>
    generation' # lastGen /\ (AtPoll => generation' # got.gen)

LEMMA WholeInit == Init => WholeInv
<1> SUFFICES ASSUME Init PROVE WholeInv
  OBVIOUS
<1>1. PICK l \in Layouts, s \in Sizes : Restored(l, s)
  BY SizesArePairs DEF Init, Layouts
<1>2. want = host /\ real \in Sizes /\ pc = "idle"
  BY <1>1 DEF Restored
<1> QED BY <1>2 DEF WholeInv, LatestInv, ReadsInv, WholeSize, AtPoll

LEMMA WholeNext == TypeInv /\ WholeInv /\ [Next]_vars /\ [NotRound]_vars => WholeInv'
<1> SUFFICES ASSUME TypeInv, WholeInv, [Next]_vars, [NotRound]_vars PROVE WholeInv'
  OBVIOUS
<1>t. host \in Sizes /\ host = <<host[1], host[2]>> /\ PhoneSize \in Sizes
  <2>1. host \in Sizes
    BY TypeParts DEF GuestOK
  <2>2. host \in Nat \X Nat
    BY <2>1, SizesArePairs
  <2> QED BY <2>1, <2>2, SizesArePairs
<1>w. LatestInv /\ ReadsInv /\ WholeSize
  BY DEF WholeInv
<1>1. CASE Page \/ UNCHANGED vars
  <2>1. UNCHANGED deviceVars /\ UNCHANGED guestVars
    BY <1>1 DEF Page, Resize, Pump, SetPhoneSim, ThreeSeconds, TakeLine, vars
  <2> QED BY <1>w, <2>1 DEF WholeInv, LatestInv, ReadsInv, WholeSize, AtPoll, deviceVars, guestVars, modeVars, pollVars
<1>2. CASE TakeRequest
  <2>1. UNCHANGED guestVars
    BY <1>2 DEF TakeRequest
  <2>2. CASE UNCHANGED deviceVars
    BY <1>w, <2>1, <2>2 DEF WholeInv, LatestInv, ReadsInv, WholeSize, AtPoll, deviceVars, guestVars, modeVars, pollVars
  <2>3. CASE ~UNCHANGED deviceVars
    <3>1. host' # host
      BY <1>2, <2>3 DEF TakeRequest
    <3>2. NotRound
      BY <3>1 DEF vars, deviceVars
    <3>3. generation' # lastGen /\ (AtPoll => generation' # got.gen)
      BY <1>2, <3>1, <3>2 DEF NotRound
    <3>4. lastGen' = lastGen /\ want' = want /\ got' = got /\ pc' = pc /\ real' = real
      BY <2>1 DEF guestVars, modeVars, pollVars
    <3> QED BY <1>w, <3>3, <3>4 DEF WholeInv, LatestInv, ReadsInv, WholeSize, AtPoll
  <2> QED BY <2>2, <2>3
<1>3. CASE ReadGeneration
  <2>1. /\ pc = "idle" /\ pc' = "width" /\ got'.gen = generation
        /\ UNCHANGED <<host, generation, lastGen, want, real>>
    BY <1>3, TypeParts DEF ReadGeneration, deviceVars, modeVars, pollVars, ReadOK, Reading
  <2> QED BY <1>t, <1>w, <2>1 DEF WholeInv, LatestInv, ReadsInv, WholeSize, AtPoll
<1>4. CASE ReadWidth
  <2>1. /\ pc = "width" /\ pc' = "height" /\ got'.gen = got.gen /\ got'.w = host[1]
        /\ UNCHANGED <<host, generation, lastGen, want, real>>
    BY <1>4, TypeParts DEF ReadWidth, deviceVars, modeVars, pollVars, ReadOK, Reading
  <2> QED BY <1>w, <2>1 DEF WholeInv, LatestInv, ReadsInv, WholeSize, AtPoll
<1>5. CASE ReadHeight
  <2>1. /\ pc = "height" /\ pc' = "command" /\ got'.gen = got.gen /\ got'.w = got.w /\ got'.h = host[2]
        /\ UNCHANGED <<host, generation, lastGen, want, real>>
    BY <1>5, TypeParts DEF ReadHeight, deviceVars, modeVars, pollVars, ReadOK, Reading
  <2> QED BY <1>t, <1>w, <2>1 DEF WholeInv, LatestInv, ReadsInv, WholeSize, AtPoll
<1>6. CASE DriverWidth
  <2>1. /\ pc = "driverWidth" /\ pc' = "driverHeight" /\ got'.w = got.w /\ got'.h = got.h
        /\ UNCHANGED <<host, generation, lastGen, want, real>>
    BY <1>6, TypeParts DEF DriverWidth, deviceVars, modeVars, pollVars, ReadOK, Reading
  <2> QED BY <1>w, <2>1 DEF WholeInv, LatestInv, ReadsInv, WholeSize, AtPoll
<1>7. CASE NoCommand \/ RunCommand
  <2>1. /\ pc = "command" /\ pc' = "decide"
        /\ UNCHANGED <<host, generation, lastGen, want, real, got>>
    BY <1>7 DEF NoCommand, RunCommand, deviceVars, modeVars, pollVars
  <2> QED BY <1>w, <2>1 DEF WholeInv, LatestInv, ReadsInv, WholeSize, AtPoll
<1>8. CASE Decide
  <2> DEFINE size  == <<got.w, got.h>>
  <2>1. /\ pc = "decide" /\ lastGen' = got.gen /\ want' = size /\ UNCHANGED <<host, generation, real>>
        /\ pc' = "idle" \/ (pc' = "driverWidth" /\ UNCHANGED got)
    BY <1>8, Zenon DEF Decide, deviceVars, modeVars
  <2>2. pc' = "driverWidth" => got.gen = lastGen /\ size = want
    <3>1. pc' = "driverWidth" =>
            ~(got.gen = lastGen /\ size # want) /\ (IF got.gen # lastGen THEN 0 ELSE stable) + 1 >= 3
      <4>1. "driverWidth" # "idle"
        OBVIOUS
      <4> QED BY <1>8, <4>1 DEF Decide, SettlePolls
    <3>2. ~(0 + 1 >= 3)
      OBVIOUS
    <3> HIDE DEF size
    <3> QED BY <3>1, <3>2
  <2> HIDE DEF size
  <2>3. generation = got.gen => size = host
    BY <1>w, <2>1 DEF ReadsInv, size
  <2>4. pc' = "driverWidth" => size \in Sizes
    BY <1>w, <2>1, <2>2 DEF ReadsInv, AtPoll
  <2>5. LatestInv' /\ WholeSize'
    BY <1>w, <2>1, <2>3 DEF LatestInv, WholeSize
  <2>6. ReadsInv'
    BY <2>1, <2>4 DEF ReadsInv, AtPoll, size
  <2> QED BY <2>5, <2>6 DEF WholeInv
<1>9. CASE Remode
  <2>1. pc = "driverHeight" /\ pc' = "idle" /\ real' = <<got.w, got.h>> /\ UNCHANGED <<host, generation, lastGen, want>>
    BY <1>9 DEF Remode, Recorded, deviceVars
  <2> QED BY <1>w, <2>1 DEF WholeInv, LatestInv, ReadsInv, WholeSize, AtPoll
<1>10. CASE Exit
  <2>1. pc' \in {"exited", "idle"} /\ UNCHANGED <<host, generation, lastGen, want, real>>
    BY <1>10 DEF Exit, deviceVars, modeVars
  <2> QED BY <1>w, <2>1 DEF WholeInv, LatestInv, ReadsInv, WholeSize, AtPoll
<1>11. CASE Restart
  <2>1. pc' = "idle" /\ host' = PhoneSize /\ want' = PhoneSize /\ real' = PhoneSize
    BY <1>11 DEF Restart
  <2> QED BY <1>t, <2>1 DEF WholeInv, LatestInv, ReadsInv, WholeSize, AtPoll
<1> QED BY <1>1, <1>2, <1>3, <1>4, <1>5, <1>6, <1>7, <1>8, <1>9, <1>10, <1>11 DEF Next, Guest, Reads

\* However the page's requests come between PVMON's reads of the generation, the
\* width and the height, PVMON makes Windows no screen that was not asked for, so long as
\* the counter does not come round between two polls.
THEOREM SizesAreWhole == Spec /\ [][NotRound]_vars => []WholeSize
<1>1. WholeInv => WholeSize
  BY DEF WholeInv
<1> QED BY <1>1, TypeInit, TypeNext, WholeInit, WholeNext, PTL DEF Spec
=============================================================================
