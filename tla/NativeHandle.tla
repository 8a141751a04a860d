---------------------------- MODULE NativeHandle ----------------------------
(***************************************************************************)
(* One call into the C ABI (db-sim-ffi/src/lib.rs) on the handle of a      *)
(* match, from the moment it holds the handle's lock. A mutating call      *)
(* works on a clone of the session, serialises the response, and only then *)
(* puts the clone in the place of the session. What the handle keeps:      *)
(*   session    the live session                                           *)
(*   poisoned   the atomic poison flag                                     *)
(*   broken     the mutex was poisoned by a panic                          *)
(* A call is an operator from the handle to the set of its outcomes        *)
(*   [handle, status, transition]                                          *)
(* in which a status other than OK carries no transition.                  *)
(***************************************************************************)
EXTENDS MatchSession

Status == {"OK", "MALFORMED_ENVELOPE", "INTERNAL_PANIC", "RESPONSE_TOO_LARGE"}

NoTransition == [disposition |-> "None"]

NewHandle(ss) == [session |-> ss, poisoned |-> FALSE, broken |-> FALSE]

Fails(h, status) == [handle |-> h, status |-> status, transition |-> NoTransition]

Poison(h) == [h EXCEPT !.poisoned = TRUE]

(* guard(): a panic under the lock poisons the mutex, then the handle.     *)
Panics(h) == Fails([h EXCEPT !.poisoned = TRUE, !.broken = TRUE], "INTERNAL_PANIC")

(* What any call can come to besides its answer: refused before it reaches *)
(* the session, a failed serialisation or broken invariant, a panic.       *)
Mishaps(h) ==
  {Fails(h, "MALFORMED_ENVELOPE"),
   Fails(Poison(h), "INTERNAL_PANIC"),
   Panics(h)}

SwapEarlyBug(h, outcome) ==
  LET swapped == [h EXCEPT !.session = outcome.session]
  IN  {Fails(swapped, "RESPONSE_TOO_LARGE"),
       [handle |-> swapped, status |-> "OK",
        transition |-> outcome.reply.transition]}

(* The clone has answered. A response over the cap leaves the session as   *)
(* it was and the handle usable.                                           *)
Swap(h, outcome) ==
  {Fails(h, "RESPONSE_TOO_LARGE"),
   [handle |-> [h EXCEPT !.session = outcome.session], status |-> "OK",
    transition |-> outcome.reply.transition]}

(* session_fault_status(): the clone faulted, and is dropped.              *)
Faulted(h, ss) == {Fails(Poison(h), "INTERNAL_PANIC")}

(* apply_serialized() and apply_timeout_serialized().                      *)
Apply(h, r) ==
  Mishaps(h) \cup
  UNION {IF outcome.reply.kind = "Fault"
           THEN Faulted(h, outcome.session)
           ELSE Swap(h, outcome) : outcome \in Outcomes(h.session, r)}

(* db_sim_match_snapshot, _terrain, _preview and _bot_decide.              *)
Look(h) ==
  Mishaps(h) \cup
  {Fails(h, "RESPONSE_TOO_LARGE"),
   [handle |-> h, status |-> "OK", transition |-> NoTransition]}

=============================================================================
