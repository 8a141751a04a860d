----------------------------- MODULE LiveProofs -----------------------------
(***************************************************************************)
(* What the client's match shows and when its turns run out, proved for    *)
(* every match, every bot's choices and every length of the window. The    *)
(* view is the authority's because every id is spent once, so that no      *)
(* answer is an old one; the deadline is the turn's because it is armed    *)
(* with the player and the turn it was armed for, which change together    *)
(* and only when the turn is handed over.                                  *)
(***************************************************************************)
EXTENDS LiveClient, CallProofs

(* The parts of the invariant.                                             *)
Served ==
  /\ Shaped(session)
  /\ Good(session.host)
  /\ session.generation \in Nat

Followed ==
  /\ live \in [view : {View(session)}, deadline : {live.deadline},
               armed : {live.armed}, ordinal : Nat]
  /\ \A id \in DOMAIN session.ledger : id \in Nat /\ id < live.ordinal
  /\ session.host.processed \subseteq DOMAIN session.ledger
  /\ last.reply \notin {"Replay", "Conflict"}

Timed ==
  /\ age \in 0..Window
  /\ InProgress(live.view) =>
       /\ live.armed = Owed(live.view)
       /\ live.deadline = Window - age

LInv == Served /\ Followed /\ Timed

-----------------------------------------------------------------------------
(* Arming (LiveMatch.cs:405).                                              *)

LEMMA OwedIsArmed ==
  ASSUME NEW h, Good(h), NEW l, l.view.host = h
  PROVE  /\ Owed(l.view) # NoDeadline
         /\ Actionable(l.view) <=> InProgress(l.view)
BY ClientAssumption DEF Owed, Good, State, Open, Final, Actionable, InProgress

LEMMA NewIsArmed ==
  ASSUME NEW ss, Good(ss.host)
  PROVE  /\ NewLive(ss) \in [view : {View(ss)}, deadline : {NewLive(ss).deadline},
                             armed : {NewLive(ss).armed}, ordinal : {0}]
         /\ InProgress(View(ss)) =>
              /\ NewLive(ss).armed = Owed(View(ss))
              /\ NewLive(ss).deadline = Window
<1> DEFINE l == [view |-> View(ss), deadline |-> NoDeadline,
                 armed |-> NoDeadline, ordinal |-> 0]
<1>1. /\ l.view = View(ss) /\ l.armed = NoDeadline
      /\ l.view.host = ss.host
  BY DEF View
<1>2. /\ Owed(l.view) # NoDeadline
      /\ Actionable(l.view) <=> InProgress(l.view)
  BY <1>1, OwedIsArmed
<1>3. NewLive(ss) = IF ~InProgress(l.view)
                      THEN [l EXCEPT !.armed = NoDeadline, !.deadline = NoDeadline]
                      ELSE [l EXCEPT !.armed = Owed(l.view), !.deadline = Window]
  BY <1>1, <1>2 DEF NewLive, ArmOrClear
<1> QED
  BY <1>3

(* An accepted reply moves the view and keeps or rearms the deadline.      *)
LEMMA ReconcileArms ==
  ASSUME NEW l, NEW reply, NEW v, NEW h, Good(h),
         l \in [view : {l.view}, deadline : {l.deadline}, armed : {l.armed}, ordinal : Nat],
         l.armed = Owed(l.view),
         IF WasAccepted(reply)
           THEN v = [host |-> reply.transition.snapshot,
                     generation |-> reply.transition.post]
           ELSE v = l.view,
         v.host = h
  PROVE  LET m == Reconcile(l, reply)
         IN  /\ m \in [view : {v}, deadline : {m.deadline}, armed : {m.armed}, ordinal : Nat]
             /\ m.ordinal = l.ordinal + 1
             /\ InProgress(v) =>
                  /\ m.armed = Owed(v)
                  /\ m.deadline = IF Owed(v) = Owed(l.view) THEN l.deadline ELSE Window
<1> DEFINE m == Reconcile(l, reply)
           sent == [l EXCEPT !.ordinal = @ + 1]
           moved == [sent EXCEPT !.view = v]
<1>1. /\ sent \in [view : {l.view}, deadline : {l.deadline}, armed : {l.armed},
                   ordinal : Nat]
      /\ sent.ordinal = l.ordinal + 1
  OBVIOUS
<1>2. CASE ~WasAccepted(reply)
  <2>1. m = sent /\ v = l.view
    BY <1>2 DEF Reconcile
  <2> HIDE DEF m, sent
  <2> QED
    BY <1>1, <2>1 DEF m
<1>3. CASE WasAccepted(reply)
  <2>1. m = ArmOrClear(moved)
    BY <1>3 DEF Reconcile
  <2>2. /\ moved \in [view : {v}, deadline : {l.deadline}, armed : {l.armed},
                      ordinal : Nat]
        /\ moved.ordinal = l.ordinal + 1
    BY <1>1
  <2> HIDE DEF moved, sent, m
  <2>3. /\ moved.view = v /\ moved.armed = Owed(l.view) /\ moved.deadline = l.deadline
    BY <2>2
  <2>4. Actionable(v) <=> InProgress(v)
    BY <2>3, OwedIsArmed
  <2>5. CASE ~InProgress(v)
    <3>1. m = [moved EXCEPT !.armed = NoDeadline, !.deadline = NoDeadline]
      BY <2>1, <2>3, <2>4, <2>5 DEF ArmOrClear
    <3> QED
      BY <2>2, <2>5, <3>1 DEF m
  <2>6. CASE InProgress(v) /\ Owed(v) = Owed(l.view)
    <3>1. m = moved
      BY <2>1, <2>3, <2>4, <2>6 DEF ArmOrClear
    <3> QED
      BY <2>2, <2>3, <2>6, <3>1 DEF m
  <2>7. CASE InProgress(v) /\ Owed(v) # Owed(l.view)
    <3>1. m = [moved EXCEPT !.armed = Owed(v), !.deadline = Window]
      BY <2>1, <2>3, <2>4, <2>7 DEF ArmOrClear
    <3> QED
      BY <2>2, <2>7, <3>1 DEF m
  <2> QED
    BY <2>5, <2>6, <2>7
<1> QED
  BY <1>2, <1>3

-----------------------------------------------------------------------------
(* One submission (LiveMatch.cs:369).                                      *)

LEMMA AskTyped ==
  ASSUME LInv, MayAsk, NEW kind \in Kind, NEW slot \in Slot
  PROVE  /\ Ask(live, kind, slot) \in Request
         /\ Ask(live, kind, slot).id = live.ordinal
         /\ live.ordinal \notin DOMAIN session.ledger
<1>1. /\ live.view = View(session)
      /\ live.ordinal \in CommandId /\ live.ordinal \in Nat
  BY DEF LInv, Followed, MayAsk
<1>2. /\ session.host.active \in Player /\ session.host.turn \in Nat
      /\ session.generation \in Nat
  BY DEF LInv, Served, Good, State
<1> QED
  BY <1>1, <1>2 DEF Ask, Request, View, LInv, Followed

(* The session after a request, the view the client makes of the reply,    *)
(* and that both are the same.                                             *)
LEMMA ViewFollows ==
  ASSUME Served, session.host.processed \subseteq DOMAIN session.ledger,
         NEW r \in Request, r.id \notin DOMAIN session.ledger,
         NEW o \in Outcomes(session, r)
  PROVE  /\ Shaped(o.session)
         /\ Good(o.session.host)
         /\ o.session.generation \in Nat
         /\ DOMAIN o.session.ledger \subseteq DOMAIN session.ledger \cup {r.id}
         /\ o.session.host.processed \subseteq DOMAIN o.session.ledger
         /\ o.reply.kind \notin {"Replay", "Conflict"}
         /\ View(o.session) =
              IF WasAccepted(o.reply)
                THEN [host |-> o.reply.transition.snapshot,
                      generation |-> o.reply.transition.post]
                ELSE View(session)
<1>1. CASE Closes(session, o)
  <2>1. /\ Shaped(Close(session))
        /\ Close(session).host = session.host
        /\ Close(session).generation = session.generation
        /\ Close(session).ledger = session.ledger
    BY DEF Close, Served, Shaped
  <2> QED
    BY <1>1, <2>1 DEF Closes, Served, WasAccepted, View
<1>2. CASE Dropped(session, o)
  BY <1>2 DEF Dropped, Served, WasAccepted, View
<1>3. ASSUME NEW t, Records(session, r, t, o)
      PROVE  /\ Shaped(o.session)
             /\ Good(o.session.host)
             /\ o.session.generation \in Nat
             /\ DOMAIN o.session.ledger \subseteq DOMAIN session.ledger \cup {r.id}
             /\ o.session.host.processed \subseteq DOMAIN o.session.ledger
             /\ o.reply.kind \notin {"Replay", "Conflict"}
             /\ View(o.session) =
                  IF WasAccepted(o.reply)
                    THEN [host |-> o.reply.transition.snapshot,
                          generation |-> o.reply.transition.post]
                    ELSE View(session)
  <2>1. /\ o.reply.kind = "Receipt" /\ o.reply.transition = t
    BY <1>3 DEF Records
  <2>2. Extends(session, r, t, o.session)
    BY <1>3, RecordExtends
  <2>3. /\ Shaped(o.session)
        /\ o.session.host = t.snapshot
        /\ o.session.generation = t.post
        /\ DOMAIN o.session.ledger = DOMAIN session.ledger \cup {r.id}
        /\ t = Rejection(session) \/ Moved(session, r, t)
    BY <2>2 DEF Extends
  <2>4. CASE t = Rejection(session)
    <3>1. /\ t.snapshot = session.host /\ t.post = session.generation
          /\ t.disposition = "Rejected"
      BY <2>4 DEF Rejection, Transition
    <3> QED
      BY <2>1, <2>3, <3>1 DEF Served, WasAccepted, View
  <2>5. CASE Moved(session, r, t)
    <3>1. t.disposition = "Accepted" /\ t.post \in Nat
      BY <2>5 DEF Moved, Transition, Served
    <3>2. /\ Good(t.snapshot)
          /\ t.snapshot.processed \subseteq session.host.processed \cup {r.id}
      BY <2>5, AcceptedMoves DEF Moved, Served, Good
    <3> QED
      BY <2>1, <2>3, <3>1, <3>2 DEF WasAccepted, View
  <2> QED
    BY <2>3, <2>4, <2>5
<1>4. ~Repeats(session, r, o)
  BY DEF Repeats
<1> QED
  BY <1>1, <1>2, <1>3, <1>4, OutcomeKinds DEF Served

LEMMA SubmitFollows ==
  ASSUME LInv, MayAsk, NEW kind \in Kind, NEW slot \in Slot, NEW by,
         NEW o \in Answers(Ask(live, kind, slot)), Submit(by, o)
  PROVE  LInv'
<1> DEFINE r == Ask(live, kind, slot)
<1>1. /\ r \in Request /\ r.id = live.ordinal
      /\ r.id \notin DOMAIN session.ledger
  BY AskTyped
<1>2. o \in Outcomes(session, r)
  BY DEF Answers
<1> HIDE DEF r
<1>3. /\ Shaped(o.session)
      /\ Good(o.session.host)
      /\ o.session.generation \in Nat
      /\ DOMAIN o.session.ledger \subseteq DOMAIN session.ledger \cup {r.id}
      /\ o.session.host.processed \subseteq DOMAIN o.session.ledger
      /\ o.reply.kind \notin {"Replay", "Conflict"}
      /\ View(o.session) =
           IF WasAccepted(o.reply)
             THEN [host |-> o.reply.transition.snapshot,
                   generation |-> o.reply.transition.post]
             ELSE View(session)
  BY <1>1, <1>2, ViewFollows DEF LInv, Followed
<1>4. /\ session' = Forget(o.session)
      /\ live' = Reconcile(live, o.reply)
      /\ last'.reply = o.reply.kind
      /\ age' = IF Owed(live'.view) = Owed(live.view) THEN age ELSE 0
  BY DEF Submit
<1>5. /\ Shaped(session')
      /\ session'.host = o.session.host
      /\ session'.generation = o.session.generation
      /\ DOMAIN session'.ledger = DOMAIN o.session.ledger
      /\ View(session') = View(o.session)
  BY <1>3, <1>4 DEF Forget, Shaped, View
<1>6. Served'
  BY <1>3, <1>5 DEF Served
<1>7. /\ live \in [view : {live.view}, deadline : {live.deadline},
                   armed : {live.armed}, ordinal : Nat]
      /\ live.view = View(session)
      /\ live.ordinal \in Nat
      /\ live.armed = Owed(live.view)
      /\ live.deadline = Window - age
      /\ age \in 0..Window
  BY DEF LInv, Followed, Timed, MayAsk
<1> DEFINE v == View(session')
<1>8. /\ v.host = o.session.host
      /\ IF WasAccepted(o.reply)
           THEN v = [host |-> o.reply.transition.snapshot,
                     generation |-> o.reply.transition.post]
           ELSE v = live.view
  BY <1>3, <1>5, <1>7 DEF View
<1> HIDE DEF v
<1>9. /\ live' \in [view : {v}, deadline : {live'.deadline}, armed : {live'.armed},
                    ordinal : Nat]
      /\ live'.ordinal = live.ordinal + 1
      /\ InProgress(v) =>
           /\ live'.armed = Owed(v)
           /\ live'.deadline = IF Owed(v) = Owed(live.view) THEN live.deadline ELSE Window
  BY <1>3, <1>4, <1>7, <1>8, ReconcileArms
<1>10. Followed'
  <2>1. \A id \in DOMAIN session'.ledger : id \in Nat /\ id < live'.ordinal
    BY <1>1, <1>3, <1>5, <1>7, <1>9 DEF LInv, Followed
  <2>2. session'.host.processed \subseteq DOMAIN session'.ledger
    BY <1>3, <1>5
  <2> QED
    BY <1>3, <1>4, <1>9, <2>1, <2>2 DEF Followed, v
<1>11. Timed'
  <2>1. live'.view = v
    BY <1>9
  <2>2. Window \in Nat
    BY ClientAssumption
  <2> QED
    BY <1>4, <1>7, <1>9, <2>1, <2>2 DEF Timed
<1> QED
  BY <1>6, <1>10, <1>11 DEF LInv

-----------------------------------------------------------------------------
(* The frame loop (Main.cs:264).                                           *)

LEMMA TickFollows ==
  ASSUME LInv, Tick
  PROVE  LInv'
<1>1. /\ session' = session
      /\ live' = [live EXCEPT !.deadline = IF @ = NoDeadline THEN @ ELSE Down(@)]
      /\ age' = Up(age)
      /\ last'.reply = "None"
      /\ InProgress(live.view)
  BY DEF Tick
<1>2. /\ live \in [view : {View(session)}, deadline : {live.deadline},
                   armed : {live.armed}, ordinal : Nat]
      /\ live.armed = Owed(live.view)
      /\ live.deadline = Window - age
      /\ age \in 0..Window
      /\ Window \in Nat
  BY <1>1, ClientAssumption DEF LInv, Followed, Timed
<1>3. live.deadline \in Nat
  BY <1>2
<1>4. /\ live'.deadline = Window - age'
      /\ age' \in 0..Window
  <2>1. live'.deadline = Down(live.deadline)
    BY <1>1, <1>2, <1>3, ClientAssumption
  <2> QED
    BY <1>1, <1>2, <1>3, <2>1 DEF Down, Up
<1>5. /\ live' \in [view : {View(session)}, deadline : {live'.deadline},
                    armed : {live.armed}, ordinal : Nat]
      /\ live'.ordinal = live.ordinal
      /\ live'.armed = live.armed
      /\ live'.view = live.view
  BY <1>1, <1>2
<1>6. Served' /\ Followed'
  BY <1>1, <1>5 DEF LInv, Served, Followed
<1>7. Timed'
  BY <1>2, <1>4, <1>5 DEF Timed
<1> QED
  BY <1>6, <1>7 DEF LInv

(* A match just started, the first one or a rematch.                       *)
LEMMA StartFollows ==
  ASSUME NEW ss, ss = NewSession(Start(InitialState)), NEW l, l = NewLive(ss)
  PROVE  /\ Shaped(ss) /\ Good(ss.host) /\ ss.generation \in Nat
         /\ l \in [view : {View(ss)}, deadline : {l.deadline}, armed : {l.armed},
                   ordinal : Nat]
         /\ \A id \in DOMAIN ss.ledger : id \in Nat /\ id < l.ordinal
         /\ ss.host.processed \subseteq DOMAIN ss.ledger
         /\ InProgress(l.view) => l.armed = Owed(l.view) /\ l.deadline = Window - 0
<1>1. /\ Shaped(ss) /\ ss.generation = 0 /\ DOMAIN ss.ledger = {}
      /\ ss.host = Start(InitialState)
  BY DEF NewSession, Shaped
<1>2. Good(ss.host) /\ ss.host.processed = {}
  BY <1>1, StartIsGood, StartAccounts
<1>3. Window \in Nat
  BY ClientAssumption
<1> QED
  BY <1>1, <1>2, <1>3, NewIsArmed

LEMMA ChoicesTyped ==
  ASSUME LInv
  PROVE  /\ \A key \in Keys : key[1] \in Kind /\ key[2] \in Slot
         /\ \A choice \in Decide(session.host) : choice[1] \in Kind /\ choice[2] \in Slot
BY DEF Keys, Decide, Kind, ClientKind, Slot

(* The client's match follows the session, turn by turn.                   *)
THEOREM ClientFollows == Spec => []LInv
<1>1. Init => LInv
  <2> SUFFICES ASSUME Init PROVE LInv
    OBVIOUS
  <2>1. /\ session = NewSession(Start(InitialState)) /\ live = NewLive(session)
        /\ age = 0 /\ last.reply = "None"
    BY DEF Init
  <2>2. Window \in Nat
    BY ClientAssumption
  <2> QED
    BY <2>1, <2>2, StartFollows DEF LInv, Served, Followed, Timed
<1>2. LInv /\ [Next]_vars => LInv'
  <2> SUFFICES ASSUME LInv, [Next]_vars PROVE LInv'
    OBVIOUS
  <2>1. CASE UNCHANGED vars
    BY <2>1 DEF vars, LInv, Served, Followed, Timed
  <2>2. CASE Input
    BY <2>2, SubmitFollows, ChoicesTyped DEF Input
  <2>3. CASE BotTurn
    BY <2>3, SubmitFollows, ChoicesTyped DEF BotTurn, Due
  <2>4. CASE TimeOut
    <3>1. "Timeout" \in Kind /\ "Basic" \in Slot
      BY DEF Kind, Slot
    <3> QED
      BY <2>4, <3>1, SubmitFollows DEF TimeOut, Due
  <2>5. CASE Tick
    BY <2>5, TickFollows
  <2>6. CASE Rematch
    <3>1. /\ session' = NewSession(Start(InitialState)) /\ live' = NewLive(session')
          /\ age' = 0 /\ last'.reply = "None"
      BY <2>6 DEF Rematch
    <3>2. Window \in Nat
      BY ClientAssumption
    <3> QED
      BY <3>1, <3>2, StartFollows DEF LInv, Served, Followed, Timed
  <2> QED
    BY <2>1, <2>2, <2>3, <2>4, <2>5, <2>6 DEF Next
<1> QED
  BY <1>1, <1>2, PTL DEF Spec

(* The client shows what the session last published, and is never answered *)
(* with an old receipt (LiveMatch.cs:68, 369).                             *)
THEOREM ViewsAreCurrent == Spec => []ViewIsCurrent
<1>1. LInv => ViewIsCurrent
  BY DEF LInv, Followed, ViewIsCurrent
<1> QED
  BY <1>1, ClientFollows, PTL

(* The deadline runs from the start of the turn, whatever the player does  *)
(* in it (LiveMatch.cs:405).                                               *)
THEOREM NoActionBuysTime == Spec => []OneWindowPerTurn
<1>1. LInv => OneWindowPerTurn
  BY DEF LInv, Timed, OneWindowPerTurn
<1> QED
  BY <1>1, ClientFollows, PTL

-----------------------------------------------------------------------------
(* The bot (bot.rs:113).                                                   *)

LEMMA FullPowerIsLeft ==
  ASSUME NEW h \in State, h.active \in Player
  PROVE  MaxLaunchPower(h) \in Nat \ {0}
<1> DEFINE remaining == IF h.moves > 0 THEN h.moves ELSE 0
           allowance == Allowance[h.active]
<1>1. h.moves \in Int /\ allowance \in Nat
  BY RosterAssumption DEF State
<1>2. CASE allowance = 0
  BY <1>2 DEF MaxLaunchPower
<1>3. CASE allowance # 0
  <2>1. remaining \in Nat /\ (10 * remaining) \div allowance \in Int
    BY <1>1, <1>3
  <2> QED
    BY <1>3, <2>1 DEF MaxLaunchPower
<1> QED
  BY <1>2, <1>3

(* The powers the bot may launch at keep to what walking has left.         *)
LEMMA PowersAreLaunchable ==
  ASSUME NEW h \in State, h.active \in Player,
         NEW power \in {StrikePower(h)} \cup Aimed(h)
  PROVE  power <= MaxLaunchPower(h)
<1>1. MaxLaunchPower(h) \in Nat \ {0}
  BY FullPowerIsLeft
<1>2. StrikePower(h) <= MaxLaunchPower(h)
  BY <1>1 DEF StrikePower
<1>3. ASSUME NEW n \in Int
      PROVE  Clamp(n, 1, MaxLaunchPower(h)) \in 1..MaxLaunchPower(h)
  BY <1>1, <1>3 DEF Clamp
<1>4. Searched(h) \subseteq Int
  BY <1>1, <1>3 DEF Searched
<1>5. \A n \in UNION {Jitter(best) : best \in Searched(h)} : n \in Int
  BY <1>4 DEF Jitter
<1>6. \A n \in Aimed(h) : n \in 1..MaxLaunchPower(h)
  BY <1>3, <1>5 DEF Aimed
<1> QED
  BY <1>1, <1>2, <1>6

(* What the bot decides in a match that goes on is never refused, by the   *)
(* session or by the host, however far it walked before (bot.rs:197).      *)
THEOREM BotPlaysByTheRules == Spec => []BotIsNeverRefused
<1>1. LInv => BotIsNeverRefused
  <2> SUFFICES ASSUME LInv, InProgress(live.view),
                      NEW choice \in Decide(session.host)
               PROVE  /\ ~Refused(session.host, Ask(live, choice[1], choice[2]))
                      /\ choice[1] = "Ability" => Valid(session.host, Proposal(choice))
    BY DEF BotIsNeverRefused
  <2> DEFINE h == session.host
  <2>1. /\ live.view = View(session)
        /\ h.processed \subseteq DOMAIN session.ledger
        /\ \A id \in DOMAIN session.ledger : id < live.ordinal
        /\ live.ordinal \in Nat
        /\ \A id \in DOMAIN session.ledger : id \in Nat
        /\ Good(h)
    BY DEF LInv, Served, Followed
  <2>2. live.view.host = h /\ h.phase # "MatchComplete"
    BY <2>1 DEF View, InProgress
  <2>3. h \in State /\ h.active \in Living(h) /\ AcceptsAbility(h)
    BY <2>1, <2>2 DEF Good, Open, Final, AcceptsAbility
  <2>4. h.active \in Player
    BY <2>3 DEF State
  <2>5. live.ordinal \notin h.processed
    BY <2>1
  <2>6. choice[1] \in {"Pass", "Ability"}
    BY DEF Decide
  <2>7. ~Refused(h, Ask(live, choice[1], choice[2]))
    BY <2>2, <2>3, <2>6 DEF Refused, Ask
  <2>8. ASSUME choice[1] = "Ability"
        PROVE  Valid(h, Proposal(choice))
    <3>1. PICK slot \in {s \in Slot : s = "Trinket" => h.charge[h.active] >= ChargeFull},
               power \in {StrikePower(h)} \cup Aimed(h) :
            /\ choice = <<"Ability", slot, power>>
            /\ ~h.attacked
      BY <2>8 DEF Decide
    <3>2. power <= MaxLaunchPower(h)
      BY <2>3, <2>4, <3>1, PowersAreLaunchable
    <3> QED
      BY <2>2, <2>3, <2>5, <3>1, <3>2 DEF Valid, Proposal
  <2> QED
    BY <2>7, <2>8
<1> QED
  BY <1>1, ClientFollows, PTL

=============================================================================
