------------------------------ MODULE Timebase ------------------------------
(***************************************************************************)
(* The microsecond clock: a hardware counter that wraps, the handler that  *)
(* counts its wraps, and the resolver that puts the two together           *)
(* (hardware/mcu/stm32f405/mcu_timebase.c, timebase_snapshot.c).  Every    *)
(* other module takes time to go forwards; this one shows why it does,     *)
(* although the two parts are read one after the other and the handler may *)
(* run late or in between.                                                 *)
(***************************************************************************)
EXTENDS Integers

CONSTANT CounterWidth  \* the hardware counter wraps here: 2^32

ASSUME CounterWraps == CounterWidth \in Nat \ {0}

(***************************************************************************)
(* The hardware and the handler.                                           *)
(***************************************************************************)
\* A moment is the true time and the overflows handled by then.  The handler
\* has the highest priority, so nothing reads between its two assignments; it
\* is late by less than one turn of the counter (docs/timebase.md:50-53).
Counter(m) == m.time % CounterWidth
Wraps(m)   == m.time \div CounterWidth
Moments    == { m \in [time : Nat, overflows : Nat] :
                  Wraps(m) \in {m.overflows, m.overflows + 1} }

UpdatePending(m) == m.overflows # Wraps(m)

\* mcu_timebase_handle_overflow_interrupt.
Handled(m) == IF UpdatePending(m) THEN [m EXCEPT !.overflows = @ + 1] ELSE m

(***************************************************************************)
(* mcu_timebase_us.                                                        *)
(***************************************************************************)
\* The five reads of one attempt, m giving the moment of each.
Snapshot(m) ==
  [overflowBefore |-> m[1].overflows, counterBefore |-> Counter(m[2]),
   updatePending  |-> UpdatePending(m[3]),
   counterAfter   |-> Counter(m[4]), overflowAfter |-> m[5].overflows]

\* timebase_snapshot_resolve; an attempt that does not resolve is repeated.
Resolves(s) == s.overflowBefore = s.overflowAfter
TimeValue(s) ==
  IF s.updatePending THEN (s.overflowBefore + 1) * CounterWidth + s.counterAfter
                     ELSE s.overflowBefore * CounterWidth + s.counterBefore

\* The moments of an attempt, in order.
Attempts ==
  { m \in [1 .. 5 -> Moments] :
      \A i \in 1 .. 4 : /\ m[i].time <= m[i + 1].time
                        /\ m[i].overflows <= m[i + 1].overflows }

=============================================================================
