--------------------------- MODULE BootMemoryCheck ---------------------------
(***************************************************************************)
(* boot_memory_check() of                                                  *)
(*   src/standalone/tools/build/py_tools/boot_memory_check.py              *)
(* The boot image's load range, read from sdkconfig.h, is looked up in the *)
(* AVAILABLE_SPACE_START_<n> / AVAILABLE_SPACE_END_<n> windows of          *)
(* available_space.h in index order; the first window that holds it ends   *)
(* the loop, and when none does the script exits with status 1.            *)
(* The headers are parsed to integers already: a window is [s, e], the     *)
(* values of START_<n> and END_<n>, and the windows are n = 0 .. k-1.      *)
(***************************************************************************)
EXTENDS Integers, Sequences

CONSTANTS
    MaxAddr,      \* addresses and lengths range over 0..MaxAddr
    MaxWindows,   \* available_space.h defines at most this many windows
    NoValue       \* exit status of a process still running

VARIABLES
    boot,   \* [start, len]: CONFIG_IMAGE_LOAD_ADDRESS, CONFIG_IMAGE_MAX_LENGTH
    win,    \* win[n+1] = [s |-> START_n, e |-> END_n]
    i,      \* the loop index over range(len(available_space_ranges) // 2)
    flag,   \* available_flg
    pc,
    exit

vars == <<boot, win, i, flag, pc, exit>>

Addr == 0..MaxAddr

(* The windows a board header declares: non-empty, start below end.      *)
Windows == {w \in [s : Addr, e : Addr] : w.s < w.e}

(* boot_load_end: the last address of the boot image.                     *)
BootEnd == boot.start + boot.len - 1

(* The loop's test for one window.                                        *)
Fits(w) == boot.start >= w.s /\ BootEnd <= w.e

Init ==
    /\ boot \in [start : Addr, len : 1..MaxAddr]
    /\ win \in UNION {[1..k -> Windows] : k \in 1..MaxWindows}
    /\ i = 0
    /\ flag = 0
    /\ pc = "scan"
    /\ exit = NoValue

(* One iteration: the first window that holds the range sets the flag and *)
(* breaks out of the loop.                                                 *)
Scan ==
    /\ pc = "scan"
    /\ i < Len(win)
    /\ IF Fits(win[i + 1])
       THEN flag' = 1 /\ pc' = "decide" /\ UNCHANGED i
       ELSE i' = i + 1 /\ UNCHANGED <<flag, pc>>
    /\ UNCHANGED <<boot, win, exit>>

LoopEnd ==
    /\ pc = "scan"
    /\ i = Len(win)
    /\ pc' = "decide"
    /\ UNCHANGED <<boot, win, i, flag, exit>>

(* exit(1) when no window holds the range; otherwise the script returns.  *)
Decide ==
    /\ pc = "decide"
    /\ exit' = IF flag = 0 THEN 1 ELSE 0
    /\ pc' = "done"
    /\ UNCHANGED <<boot, win, i, flag>>

Done ==
    /\ pc = "done"
    /\ UNCHANGED vars

Next == Scan \/ LoopEnd \/ Decide \/ Done

Spec == Init /\ [][Next]_vars

-----------------------------------------------------------------------------
(* spec.md 4.4 and 8: a window is [START, END) and the boot image is     *)
(* [start, start + len), so boot_memory_check passes only when one window  *)
(* holds the whole image; an image that runs over a window's end into the *)
(* next window is rejected. The code's inclusive boot_load_end, compared   *)
(* with END by <=, is about this boundary.                                *)
PlacedHalfOpen ==
    pc = "done" /\ exit = 0 =>
      \E n \in DOMAIN win : win[n].s <= boot.start /\ boot.start + boot.len <= win[n].e

=============================================================================
