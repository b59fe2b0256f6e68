------------------------------- MODULE PvMode -------------------------------
(***************************************************************************)
(* The size of the screen and the layout of the shell: the page's mode     *)
(* controller (web/app.js), the request registers of the adapter           *)
(* (v86/src/vga.js), PVMON's poll (guest/pvmon/pvmon.c) and the display    *)
(* driver's re-mode (guest/driver/port/SRC/CONTROL.ASM).                   *)
(*                                                                         *)
(* The page wants a layout, "P" (phone) or "D" (desktop), and a size.  It  *)
(* asks for the layout with a command, learns the guest's from PVMON's PVD *)
(* lines, and asks for the size that goes with the layout the guest is in. *)
(* The adapter's three registers are read one access at a time: PVMON      *)
(* reads all three in a poll, and the driver reads the two of the size     *)
(* again when PVMON has it re-mode.                                        *)
(*                                                                         *)
(* The path of commands is module PvCommand; here it is the queue that     *)
(* CommandFifo promises.                                                   *)
(***************************************************************************)
EXTENDS Integers, Sequences

CONSTANTS Viewports,    \* sizes of the browser's window
          MaxChanges,   \* bound: changes of the window and of the simulated phone
          MaxCommands   \* bound: layout commands PVMON has not answered

ASSUME PvModeAssumption ==
  /\ Viewports \subseteq (Nat \X Nat) /\ Viewports # {}
  /\ MaxChanges \in Nat /\ MaxCommands \in Nat \ {0}

Layouts == {"D", "P"}
Word    == {n \in Nat : n < 65536}

Least(a, b)    == IF a <= b THEN a ELSE b
Clamp(x, a, b) == IF x < a THEN a ELSE IF x > b THEN b ELSE x

PhoneSize      == <<3200, 970>>
DesktopSize(v) == <<Clamp((v[1] \div 8) * 8, 640, 2560), Clamp((v[2] \div 2) * 2, 400, 1600)>>
Narrow(v)      == Least(v[1], v[2]) < 600
Sizes          == {PhoneSize} \cup {DesktopSize(v) : v \in {u \in Viewports : ~Narrow(u)}}

\* The phone frame that PVMON has USER take for the screen.
Frame == <<352, 970>>

VARIABLES
  viewport,     \* the browser's window
  sim,          \* page: phoneSim.on
  changes,      \* history: how often the two have changed
  guestLayout,  \* page: guestDesktop, a layout or "null"
  lastReq,      \* page: lastReq
  candidate,    \* page: pending, the size that must be stable for a while
  recent,       \* page: desktopCmdAt is less than three seconds ago
  requests,     \* messages: sizes on their way to the adapter
  commands,     \* commands on their way to PVMON: a layout, or "R" to report
  lines,        \* messages: PVMON's lines on their way to the page
  host,         \* adapter: pv_host_xres, pv_host_yres
  generation,   \* adapter: pv_generation
  screen,       \* driver: VScreen_Width, VScreen_Height
  pc,           \* guest: where in poll it is, or "exited"
  got,          \* guest: what poll, or the driver, has read
  lastGen,      \* PVMON: g_lastGen
  want,         \* PVMON: g_wantW, g_wantH
  stable,       \* PVMON: g_stable
  real,         \* PVMON: g_realW, g_realH
  done,         \* PVMON: g_doneW, g_doneH, or <<>>
  layout,       \* PVMON: g_desktop
  metrics,      \* USER: the size it takes the screen to have
  switching,    \* PVMON: g_modeSwitch
  switchPolls   \* PVMON: g_switchPolls

pageVars   == <<viewport, sim, changes, guestLayout, lastReq, candidate, recent>>
wireVars   == <<requests, commands, lines>>
deviceVars == <<host, generation>>
modeVars   == <<screen, real, done, layout, metrics>>
pollVars   == <<lastGen, want, stable, switching, switchPolls>>
guestVars  == <<modeVars, pollVars, pc, got>>
vars == <<pageVars, wireVars, deviceVars, guestVars>>

NothingRead == [gen |-> 0, w |-> 0, h |-> 0, dw |-> 0]

\* What USER is told the screen is, in layout l on a screen of size s.
Told(l, s) == IF l = "D" THEN s ELSE Frame

\* A guest in layout l on a screen of size s: the snapshot it starts from.
Restored(l, s) ==
  /\ host = s /\ generation = 0 /\ screen = s
  /\ pc = "idle" /\ got = NothingRead
  /\ lastGen = 0 /\ want = s /\ stable = 0
  /\ real = s /\ done = <<>> /\ layout = l /\ metrics = Told(l, s)
  /\ switching = FALSE /\ switchPolls = 0

\* The page as it loads: it has asked for a size and for a report.
Loaded ==
  /\ guestLayout = "null" /\ lastReq = PhoneSize /\ candidate = <<>>
  /\ recent = FALSE
  /\ requests = <<PhoneSize>> /\ commands = <<"R">> /\ lines = <<>>

\* The shipped snapshot is of the phone layout, a visitor's own may be either.
Init ==
  /\ viewport \in Viewports /\ sim = FALSE /\ changes = 0
  /\ Loaded
  /\ \/ Restored("P", PhoneSize)
     \/ \E v \in Viewports : ~Narrow(v) /\ Restored("D", DesktopSize(v))

-----------------------------------------------------------------------------
(* The page.                                                               *)

\* wantDesktop, as a layout, and computeMode when the guest is in layout l; in
\* the mutant a desktop's size is not brought to multiples of 8 and 2.
Wanted(v, s)  == IF ~Narrow(v) /\ ~s THEN "D" ELSE "P"
ModeAsIs(v, s, l) == IF Wanted(v, s) = "D" /\ l = "D" THEN v ELSE PhoneSize
Mode(v, s, l) == IF Wanted(v, s) = "D" /\ l = "D" THEN DesktopSize(v) ELSE PhoneSize

\* The window is resized, or turned.  The page finds out in pump.
Resize ==
  /\ changes < MaxChanges
  /\ viewport' \in Viewports \ {viewport}
  /\ changes' = changes + 1
  /\ UNCHANGED <<sim, guestLayout, lastReq, candidate, recent, wireVars, deviceVars, guestVars>>

\* syncDesktopMode, when the guest is in layout l and w is wanted; and a mutant
\* that only ever asks for the desktop.
SyncDesktop(l, w) ==
  IF l = "P" /\ l # w /\ ~recent
  THEN commands' = Append(commands, w) /\ recent' = TRUE
  ELSE UNCHANGED <<commands, recent>>
Sync(l, w) ==
  IF l # "null" /\ l # w /\ ~recent
  THEN commands' = Append(commands, w) /\ recent' = TRUE
  ELSE UNCHANGED <<commands, recent>>

RequestMode(m) == lastReq' = m /\ requests' = Append(requests, m)

\* pump: the layout, and the size once it has been the same for 300 ms.
Pump ==
  LET m == Mode(viewport, sim, guestLayout)
  IN /\ Sync(guestLayout, Wanted(viewport, sim))
     /\ \/ /\ candidate # m
           /\ candidate' = m
           /\ UNCHANGED <<lastReq, requests>>
        \/ /\ candidate = m
           /\ UNCHANGED <<candidate, lastReq, requests>>
        \/ /\ candidate = m /\ lastReq # m
           /\ RequestMode(m)
           /\ UNCHANGED candidate
  /\ UNCHANGED <<viewport, sim, changes, guestLayout, lines, deviceVars, guestVars>>

\* PHONE.EXE switches the simulated phone: setPhoneSim.
SetPhoneSim ==
  /\ changes < MaxChanges
  /\ changes' = changes + 1
  /\ sim' = ~sim
  /\ RequestMode(Mode(viewport, sim', guestLayout))
  /\ Sync(guestLayout, Wanted(viewport, sim'))
  /\ UNCHANGED <<viewport, guestLayout, candidate, lines, deviceVars, guestVars>>

ThreeSeconds ==
  /\ recent /\ Len(commands) + Len(lines) < MaxCommands
  /\ recent' = FALSE
  /\ UNCHANGED <<viewport, sim, changes, guestLayout, lastReq, candidate, wireVars, deviceVars, guestVars>>

\* A line of PVMON's: PVD with the layout, or PVA.
TakeLine ==
  /\ lines # <<>>
  /\ lines' = Tail(lines)
  /\ LET l == IF Head(lines) = "A" THEN guestLayout ELSE Head(lines)
     IN /\ guestLayout' = l
        /\ IF l # guestLayout THEN RequestMode(Mode(viewport, sim, l)) ELSE UNCHANGED <<lastReq, requests>>
        /\ IF Head(lines) = "A" /\ ~(Wanted(viewport, sim) = "D" /\ l # "D")
           THEN UNCHANGED <<commands, recent>>
           ELSE Sync(l, Wanted(viewport, sim))
  /\ UNCHANGED <<viewport, sim, changes, candidate, deviceVars, guestVars>>

-----------------------------------------------------------------------------
(* The adapter.                                                            *)

\* pv_request_mode.
TakeRequest ==
  /\ requests # <<>>
  /\ requests' = Tail(requests)
  /\ LET m == Head(requests)
     IN IF m = host THEN UNCHANGED deviceVars
        ELSE host' = m /\ generation' = (generation + 1) % 65536
  /\ UNCHANGED <<pageVars, commands, lines, guestVars>>

-----------------------------------------------------------------------------
(* PVMON and the driver.                                                   *)

\* poll reads the generation, the width and the height.
ReadGeneration ==
  /\ pc = "idle"
  /\ pc' = "width" /\ got' = [got EXCEPT !.gen = generation]
  /\ UNCHANGED <<pageVars, wireVars, deviceVars, modeVars, pollVars>>
ReadWidth ==
  /\ pc = "width"
  /\ pc' = "height" /\ got' = [got EXCEPT !.w = host[1]]
  /\ UNCHANGED <<pageVars, wireVars, deviceVars, modeVars, pollVars>>
ReadHeight ==
  /\ pc = "height"
  /\ pc' = "command" /\ got' = [got EXCEPT !.h = host[2]]
  /\ UNCHANGED <<pageVars, wireVars, deviceVars, modeVars, pollVars>>

\* run_host_command: there is none yet, or it is one of the two that matter
\* here.  CMD_REPUBLISH reports the layout and that all is ready; the answer of
\* set_desktop_mode is the layout.
NoCommand ==
  /\ pc = "command"
  /\ pc' = "decide"
  /\ UNCHANGED <<pageVars, wireVars, deviceVars, modeVars, pollVars, got>>
RunCommand ==
  /\ pc = "command" /\ commands # <<>>
  /\ pc' = "decide"
  /\ commands' = Tail(commands)
  /\ LET l == IF Head(commands) = "R" THEN layout ELSE Head(commands)
     IN /\ layout' = l
        /\ lines' = lines \o IF Head(commands) = "R" THEN <<l, "A">> ELSE <<l>>
        /\ IF l = layout THEN UNCHANGED <<metrics, switching, switchPolls>>
           ELSE /\ metrics' = Told(l, real)
                /\ switching' = TRUE /\ switchPolls' = 0
  /\ UNCHANGED <<pageVars, requests, deviceVars, screen, real, done, lastGen, want, stable, got>>

\* The polls a request must be stable for; in the mutant just the one.
SettlePollsOne == 1
SettlePolls == 3

\* The rest of poll.  A request that differs from the last poll's starts the
\* count; one that is met ends it, and a mode switch that needs no re-mode is
\* finished after a while; one that is stable is acted upon.
Decide ==
  /\ pc = "decide"
  /\ LET size  == <<got.w, got.h>>
         fresh == got.gen # lastGen
         moved == ~fresh /\ size # want
         met   == ~moved /\ size \in {real, done}
         count == (IF fresh THEN 0 ELSE stable) + 1
         ends  == met /\ switching /\ switchPolls + 1 >= SettlePolls
     IN /\ lastGen' = got.gen
        /\ want' = size
        /\ stable' = IF moved \/ met THEN 0 ELSE count
        /\ switchPolls' = IF met /\ switching THEN switchPolls + 1 ELSE switchPolls
        /\ switching' = (switching /\ ~ends)
        /\ lines' = IF ends THEN Append(lines, "A") ELSE lines
        /\ IF ~moved /\ ~met /\ count >= SettlePolls
           THEN pc' = "driverWidth" /\ UNCHANGED got
           ELSE pc' = "idle" /\ got' = NothingRead
  /\ UNCHANGED <<pageVars, requests, commands, deviceVars, modeVars>>

\* live_remode: the driver reads the size for itself (pv_remode) ...
DriverWidth ==
  /\ pc = "driverWidth"
  /\ pc' = "driverHeight" /\ got' = [got EXCEPT !.dw = host[1]]
  /\ UNCHANGED <<pageVars, wireVars, deviceVars, modeVars, pollVars>>

\* ... applies it (pv_apply_mode), and PVMON records the size of its own; in the
\* mutant it leaves USER's metrics at the real screen's.
RecordedReal(size) == real' = size /\ metrics' = size
Recorded(size)     == real' = size /\ metrics' = Told(layout, size)

Remode ==
  /\ pc = "driverHeight" /\ screen # <<got.dw, host[2]>>
  /\ pc' = "idle" /\ got' = NothingRead
  /\ screen' = <<got.dw, host[2]>>
  /\ Recorded(<<got.w, got.h>>)
  /\ done' = <<got.w, got.h>> /\ stable' = 0
  /\ switching' = FALSE
  /\ lines' = IF switching THEN Append(lines, "A") ELSE lines
  /\ UNCHANGED <<pageVars, requests, commands, deviceVars, layout, lastGen, want, switchPolls>>

\* If it has that size already the escape returns 0, and PVMON exits Windows,
\* unless a program vetoes that.
Exit ==
  /\ pc = "driverHeight" /\ screen = <<got.dw, host[2]>>
  /\ \/ pc' = "exited" /\ UNCHANGED stable
     \/ pc' = "idle" /\ stable' = 0
  /\ got' = NothingRead
  /\ UNCHANGED <<pageVars, wireVars, deviceVars, modeVars, lastGen, want, switching, switchPolls>>

\* The page sees the text screen, and starts over from the shipped snapshot.
Restart ==
  /\ pc = "exited"
  /\ guestLayout' = "null" /\ lastReq' = PhoneSize /\ candidate' = <<>>
  /\ recent' = FALSE
  /\ requests' = <<PhoneSize>> /\ commands' = <<"R">> /\ lines' = <<>>
  /\ host' = PhoneSize /\ generation' = 0 /\ screen' = PhoneSize
  /\ pc' = "idle" /\ got' = NothingRead
  /\ lastGen' = 0 /\ want' = PhoneSize /\ stable' = 0
  /\ real' = PhoneSize /\ done' = <<>> /\ layout' = "P" /\ metrics' = Frame
  /\ switching' = FALSE /\ switchPolls' = 0
  /\ UNCHANGED <<viewport, sim, changes>>

-----------------------------------------------------------------------------
Page  == Resize \/ Pump \/ SetPhoneSim \/ ThreeSeconds \/ TakeLine
Reads == ReadGeneration \/ ReadWidth \/ ReadHeight \/ DriverWidth
Guest == Reads \/ NoCommand \/ RunCommand \/ Decide \/ Remode \/ Exit \/ Restart

Next == Page \/ TakeRequest \/ Guest

Spec == Init /\ [][Next]_vars

\* The page's animation frames, the messages between the threads, the time, the
\* guest's timer, and the command path (PvCommand!Carried).
Fairness ==
  /\ WF_vars(Pump) /\ WF_vars(ThreeSeconds) /\ WF_vars(TakeLine)
  /\ WF_vars(TakeRequest) /\ WF_vars(Guest) /\ SF_vars(RunCommand)
FairSpec == Spec /\ Fairness

-----------------------------------------------------------------------------
\* Every variable has its type.
TypeOK ==
  /\ viewport \in Viewports /\ sim \in BOOLEAN /\ changes \in 0 .. MaxChanges
  /\ guestLayout \in Layouts \cup {"null"} /\ lastReq \in Sizes
  /\ candidate \in Sizes \cup {<<>>} /\ recent \in BOOLEAN
  /\ requests \in Seq(Sizes) /\ commands \in Seq(Layouts \cup {"R"})
  /\ lines \in Seq(Layouts \cup {"A"})
  /\ host \in Sizes /\ generation \in Word /\ lastGen \in Word
  /\ screen \in Nat \X Nat /\ real \in Nat \X Nat /\ want \in Nat \X Nat
  /\ stable \in 0 .. SettlePolls /\ switchPolls \in 0 .. SettlePolls
  /\ layout \in Layouts /\ switching \in BOOLEAN

\* PVMON never makes Windows a screen that nobody asked for, although it reads
\* the width and the height at different times: "host request must be stable
\* this many polls before acting".
WholeSize == real \in Sizes

\* The metrics that programs lay themselves out by are those of the layout and
\* of the screen PVMON has, in whatever order commands and requests come.
MetricsFollow == metrics = Told(layout, real)

\* When the window stays as it is, page, PVMON, driver and USER come to agree on
\* the layout and the size it calls for, and the switch is over; unless a request
\* has come between PVMON's reading of the size and the driver's.
Agreed ==
  /\ guestLayout = layout /\ layout = Wanted(viewport, sim)
  /\ real = Mode(viewport, sim, layout) /\ screen = real /\ host = real
  /\ ~switching
Settles == <>[](Agreed \/ screen # real)

\* "Crossing a viewport breakpoint re-modes Windows to a new resolution without
\* a reboot": a change of the window never makes Windows exit.
WindowsStays == pc # "exited"
=============================================================================
