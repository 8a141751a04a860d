---------------------------- MODULE SessionProofs ----------------------------
(***************************************************************************)
(* What a session promises its clients, proved for every match, every set  *)
(* of ids and every limit of the ledger. The invariant says of the session *)
(* what validate_checkpoint() recomputes from the ledger, and of the past  *)
(* that it is on record: the ledger holds what was answered, and every     *)
(* turn that an accepted request ended lies behind the present one.        *)
(***************************************************************************)
EXTENDS SessionPlay, CallProofs

(* The parts of the invariant, of any session.                             *)

Receipts == [disposition : Recorded, pre : Nat, post : Nat, snapshot : State]

Typed(ss) ==
  /\ Shaped(ss)
  /\ Good(ss.host)
  /\ ss.generation \in Nat
  /\ ss.bytes \in Nat
  /\ DOMAIN ss.ledger \subseteq CommandId
  /\ IsFiniteSet(DOMAIN ss.ledger)
  /\ ss.ledger \in [DOMAIN ss.ledger -> [request : Request, transition : Receipts]]
  /\ \A id \in DOMAIN ss.ledger : ss.ledger[id].request.id = id

(* The entries count the generations, one by one, up to the present host.  *)
Versioned(ss) ==
  /\ \A id \in DOMAIN ss.ledger :
       LET t == ss.ledger[id].transition
       IN  /\ Restorable(t, ss.generation)
           /\ t.post = ss.generation => t.snapshot = ss.host
  /\ \/ DOMAIN ss.ledger = {} /\ ss.generation = 0
     \/ \E id \in DOMAIN ss.ledger : ss.ledger[id].transition.post = ss.generation
  /\ {ss.ledger[id].transition.post : id \in Mutations(ss)} = 1..ss.generation
  /\ Cardinality(Mutations(ss)) = ss.generation

Measured(ss) ==
  /\ Cardinality(DOMAIN ss.ledger) <= EntryLimit
  /\ ss.bytes = LedgerBytes(ss)
  /\ ss.bytes <= ByteLimit

Processed(ss) ==
  ss.host.processed =
    {id \in Accepted(ss) : ss.ledger[id].request.kind \in MayRefuse}

(* Requests on record that ended a turn: each ended its own, in the past.  *)
Enders(ss) == {id \in Accepted(ss) : EndsItsTurn(ss.ledger[id].request)}

Past(ss) ==
  /\ \A id \in Enders(ss) :
       \/ ss.ledger[id].request.turn < ss.host.turn
       \/ ss.ledger[id].request.turn = ss.host.turn /\ Final(ss.host)
  /\ \A a, b \in Enders(ss) :
       a # b => ss.ledger[a].request.turn # ss.ledger[b].request.turn

Sound(ss) ==
  Typed(ss) /\ Versioned(ss) /\ Measured(ss) /\ Processed(ss) /\ Past(ss)

-----------------------------------------------------------------------------
(* One more receipt on record.                                             *)

(* What a receipt says, accepted or not.                                   *)
LEMMA ReceiptTyped ==
  ASSUME NEW ss, Typed(ss), NEW r \in Request,
         NEW t, t = Rejection(ss) \/ Moved(ss, r, t)
  PROVE  /\ t \in Receipts
         /\ Good(t.snapshot)
         /\ t.pre = ss.generation
         /\ t.post = IF t.snapshot = ss.host THEN ss.generation ELSE ss.generation + 1
         /\ t.disposition = "Rejected" => t.snapshot = ss.host
<1>1. ss.host \in State /\ ss.generation \in Nat
  BY DEF Typed, Good
<1>2. CASE t = Rejection(ss)
  BY <1>1, <1>2 DEF Rejection, Transition, Receipts, Recorded, Typed
<1>3. CASE Moved(ss, r, t)
  <2> DEFINE h == t.snapshot
             post == IF h = ss.host THEN ss.generation ELSE ss.generation + 1
  <2>1. t = [disposition |-> "Accepted", pre |-> ss.generation, post |-> post,
             snapshot |-> h]
    BY <1>3 DEF Moved, Transition
  <2>2. Good(h) /\ h \in State
    BY <1>1, <1>3, AcceptedMoves DEF Moved, Typed, Good
  <2>3. post \in Nat
    BY <1>1
  <2> HIDE DEF h, post
  <2>4. t \in Receipts /\ t.pre = ss.generation /\ t.post = post /\ t.disposition = "Accepted"
    BY <1>1, <2>1, <2>2, <2>3 DEF Receipts, Recorded
  <2> QED
    BY <2>2, <2>4 DEF h, post
<1> QED
  BY <1>2, <1>3

LEMMA TypedStep ==
  ASSUME NEW ss, Typed(ss), NEW r \in Request, NEW t, NEW gs, Extends(ss, r, t, gs)
  PROVE  Typed(gs)
<1>1. /\ t \in Receipts
      /\ Good(t.snapshot)
  BY ReceiptTyped DEF Extends
<1>2. t.post \in Nat /\ t.disposition \in Recorded
  BY <1>1 DEF Receipts
<1>3. EntryBytes[t.disposition] \in Nat
  BY <1>2, LedgerAssumption
<1>4. r.id \in CommandId
  BY DEF Request
<1>5. IsFiniteSet(DOMAIN gs.ledger)
  BY FS_AddElement DEF Typed, Extends
<1>6. [request |-> r, transition |-> t] \in [request : Request, transition : Receipts]
  BY <1>1
<1>7. \A id \in DOMAIN gs.ledger :
        /\ gs.ledger[id] \in [request : Request, transition : Receipts]
        /\ gs.ledger[id].request.id = id
  BY <1>6 DEF Typed, Extends
<1> QED
  BY <1>1, <1>2, <1>3, <1>4, <1>5, <1>7 DEF Typed, Extends

LEMMA AcceptedStep ==
  ASSUME NEW ss, NEW r, NEW t, NEW gs, Extends(ss, r, t, gs)
  PROVE  Accepted(gs) = IF t.disposition = "Accepted"
                          THEN Accepted(ss) \cup {r.id} ELSE Accepted(ss)
BY DEF Accepted, Extends

(* The generations stay numbered: the receipt repeats the present one or   *)
(* takes the next.                                                         *)
LEMMA VersionedStep ==
  ASSUME NEW ss, Typed(ss), Versioned(ss), NEW r \in Request, NEW t, NEW gs,
         Extends(ss, r, t, gs)
  PROVE  Versioned(gs)
<1> DEFINE g == ss.generation
<1>1. /\ t \in Receipts
      /\ t.pre = g
      /\ t.post = IF t.snapshot = ss.host THEN g ELSE g + 1
      /\ t.disposition = "Rejected" => t.snapshot = ss.host
  BY ReceiptTyped DEF Extends
<1>2. /\ g \in Nat
      /\ gs.generation = t.post /\ gs.host = t.snapshot
      /\ t.disposition \in Recorded
  BY <1>1 DEF Typed, Extends, Receipts
<1>3. \A id \in DOMAIN ss.ledger :
        /\ ss.ledger[id].transition \in Receipts
        /\ ss.ledger[id].transition.pre \in Nat
        /\ ss.ledger[id].transition.post \in Nat
  BY DEF Typed, Receipts
<1>4. \A id \in DOMAIN gs.ledger :
        LET u == gs.ledger[id].transition
        IN  /\ Restorable(u, gs.generation)
            /\ u.post = gs.generation => u.snapshot = gs.host
  <2> SUFFICES ASSUME NEW id \in DOMAIN gs.ledger
               PROVE  LET u == gs.ledger[id].transition
                      IN  /\ Restorable(u, gs.generation)
                          /\ u.post = gs.generation => u.snapshot = gs.host
    OBVIOUS
  <2>1. CASE id = r.id
    BY <1>1, <1>2, <2>1 DEF Extends, Restorable
  <2>2. CASE id \in DOMAIN ss.ledger
    <3>1. /\ Restorable(ss.ledger[id].transition, g)
          /\ ss.ledger[id].transition.post = g =>
               ss.ledger[id].transition.snapshot = ss.host
      BY <2>2 DEF Versioned
    <3>2. gs.ledger[id] = ss.ledger[id]
      BY <2>2 DEF Extends
    <3> QED
      BY <1>1, <1>2, <1>3, <2>2, <3>1, <3>2 DEF Restorable
  <2> QED
    BY <2>1, <2>2 DEF Extends
<1>5. \E id \in DOMAIN gs.ledger : gs.ledger[id].transition.post = gs.generation
  BY <1>2 DEF Extends
<1>6. IsFiniteSet(Mutations(ss))
  <2>1. Mutations(ss) \in SUBSET (DOMAIN ss.ledger)
    BY DEF Mutations, Accepted
  <2> QED
    BY <2>1, FS_Subset DEF Typed
<1>7. CASE t.snapshot = ss.host
  <2>1. t.post = g /\ ~(t.post > t.pre)
    BY <1>1, <1>2, <1>7
  <2>2. Mutations(gs) = Mutations(ss)
    BY <2>1, AcceptedStep DEF Mutations, Extends, Accepted
  <2>3. {gs.ledger[id].transition.post : id \in Mutations(gs)}
          = {ss.ledger[id].transition.post : id \in Mutations(ss)}
    BY <2>2 DEF Extends, Mutations, Accepted
  <2> QED
    BY <1>2, <1>4, <1>5, <2>1, <2>2, <2>3 DEF Versioned
<1>8. CASE t.snapshot # ss.host
  <2>1. t.post = g + 1 /\ t.post > t.pre /\ t.disposition = "Accepted"
    BY <1>1, <1>2, <1>8 DEF Recorded
  <2>2. Mutations(gs) = Mutations(ss) \cup {r.id} /\ r.id \notin Mutations(ss)
    BY <2>1, AcceptedStep DEF Mutations, Extends, Accepted
  <2>3. Cardinality(Mutations(gs)) = g + 1
    <3>1. Cardinality(Mutations(ss) \cup {r.id}) = Cardinality(Mutations(ss)) + 1
      BY <1>6, <2>2, FS_AddElement
    <3> QED
      BY <2>2, <3>1 DEF Versioned
  <2>4. {gs.ledger[id].transition.post : id \in Mutations(gs)}
          = {ss.ledger[id].transition.post : id \in Mutations(ss)} \cup {g + 1}
    BY <2>1, <2>2 DEF Extends, Mutations, Accepted
  <2>5. (1..g) \cup {g + 1} = 1..(g + 1)
    BY <1>2
  <2> QED
    BY <1>2, <1>4, <1>5, <2>1, <2>3, <2>4, <2>5 DEF Versioned
<1> QED
  BY <1>7, <1>8

LEMMA MeasuredStep ==
  ASSUME NEW ss, Typed(ss), Measured(ss), NEW r \in Request, NEW t, NEW gs,
         Extends(ss, r, t, gs),
         ~(Cardinality(DOMAIN ss.ledger) >= EntryLimit),
         ~(ss.bytes + EntryBytes[t.disposition] > ByteLimit)
  PROVE  Measured(gs)
<1> DEFINE accepted == Accepted(ss)
           refused == DOMAIN ss.ledger \ Accepted(ss)
           a == EntryBytes["Accepted"]
           b == EntryBytes["Rejected"]
<1>1. t.disposition \in {"Accepted", "Rejected"}
  BY ReceiptTyped DEF Extends, Receipts, Recorded
<1>2. /\ a \in Nat /\ b \in Nat /\ EntryLimit \in Nat /\ ByteLimit \in Nat
      /\ EntryBytes[t.disposition] \in Nat
  BY <1>1, LedgerAssumption DEF Recorded
<1>3. /\ IsFiniteSet(accepted) /\ IsFiniteSet(refused)
  <2>1. accepted \in SUBSET (DOMAIN ss.ledger) /\ refused \in SUBSET (DOMAIN ss.ledger)
    BY DEF Accepted
  <2> QED
    BY <2>1, FS_Subset DEF Typed
<1>4. Cardinality(accepted) \in Nat /\ Cardinality(refused) \in Nat
  BY <1>3, FS_CardinalityType
<1>5. r.id \notin DOMAIN ss.ledger /\ r.id \notin accepted /\ r.id \notin refused
  BY DEF Extends, Accepted
<1>6. /\ Cardinality(DOMAIN ss.ledger) \in Nat
      /\ Cardinality(DOMAIN gs.ledger) = Cardinality(DOMAIN ss.ledger) + 1
  <2>1. IsFiniteSet(DOMAIN ss.ledger)
    BY DEF Typed
  <2>2. DOMAIN gs.ledger = DOMAIN ss.ledger \cup {r.id}
    BY DEF Extends
  <2> QED
    BY <1>5, <2>1, <2>2, FS_AddElement, FS_CardinalityType, Zenon
<1>7. ss.bytes \in Nat /\ ss.bytes = a * Cardinality(accepted) + b * Cardinality(refused)
  BY DEF Typed, Measured, LedgerBytes
<1>8. \A m, n \in Nat : m * (n + 1) = m * n + m
  OBVIOUS
<1>9. CASE t.disposition = "Accepted"
  <2>1. /\ Accepted(gs) = accepted \cup {r.id}
        /\ DOMAIN gs.ledger \ Accepted(gs) = refused
    BY <1>5, <1>9, AcceptedStep DEF Extends, Accepted
  <2>2. Cardinality(Accepted(gs)) = Cardinality(accepted) + 1
    BY <1>3, <1>5, <2>1, FS_AddElement
  <2> HIDE DEF accepted, refused, a, b
  <2>3. a * (Cardinality(accepted) + 1) = a * Cardinality(accepted) + a
    BY <1>2, <1>4, <1>8
  <2>4. LedgerBytes(gs) = a * (Cardinality(accepted) + 1) + b * Cardinality(refused)
    BY <2>1, <2>2 DEF LedgerBytes, a, b
  <2>5. gs.bytes = ss.bytes + a
    BY <1>9 DEF Extends, a
  <2>6. a * Cardinality(accepted) \in Int /\ b * Cardinality(refused) \in Int
    BY <1>2, <1>4
  <2>7. gs.bytes = LedgerBytes(gs)
    BY <1>2, <1>7, <2>3, <2>4, <2>5, <2>6
  <2> QED
    BY <1>2, <1>6, <1>7, <1>9, <2>5, <2>7 DEF Measured, a
<1>10. CASE t.disposition = "Rejected"
  <2>1. /\ Accepted(gs) = accepted
        /\ DOMAIN gs.ledger \ Accepted(gs) = refused \cup {r.id}
    BY <1>5, <1>10, AcceptedStep DEF Extends, Accepted
  <2>2. Cardinality(DOMAIN gs.ledger \ Accepted(gs)) = Cardinality(refused) + 1
    BY <1>3, <1>5, <2>1, FS_AddElement
  <2> HIDE DEF accepted, refused, a, b
  <2>3. b * (Cardinality(refused) + 1) = b * Cardinality(refused) + b
    BY <1>2, <1>4, <1>8
  <2>4. LedgerBytes(gs) = a * Cardinality(accepted) + b * (Cardinality(refused) + 1)
    BY <2>1, <2>2 DEF LedgerBytes, a, b
  <2>5. gs.bytes = ss.bytes + b
    BY <1>10 DEF Extends, b
  <2>6. a * Cardinality(accepted) \in Int /\ b * Cardinality(refused) \in Int
    BY <1>2, <1>4
  <2>7. gs.bytes = LedgerBytes(gs)
    BY <1>2, <1>7, <2>3, <2>4, <2>5, <2>6
  <2> QED
    BY <1>2, <1>6, <1>7, <1>10, <2>5, <2>7 DEF Measured, b
<1> QED
  BY <1>1, <1>9, <1>10

(* The host has processed the accepted abilities and nothing else.         *)
LEMMA ProcessedStep ==
  ASSUME NEW ss, Typed(ss), Processed(ss), NEW r \in Request, NEW t, NEW gs,
         Extends(ss, r, t, gs)
  PROVE  Processed(gs)
<1>1. /\ r.id \notin DOMAIN ss.ledger
      /\ gs.host = t.snapshot
      /\ gs.ledger[r.id].request = r
      /\ \A id \in DOMAIN ss.ledger : gs.ledger[id] = ss.ledger[id]
  BY DEF Extends
<1>2. Accepted(ss) \subseteq DOMAIN ss.ledger
  BY DEF Accepted
<1>3. CASE t = Rejection(ss)
  <2>1. t.disposition = "Rejected" /\ t.snapshot = ss.host
    BY <1>3 DEF Rejection, Transition
  <2>2. Accepted(gs) = Accepted(ss)
    BY <2>1, AcceptedStep
  <2> QED
    BY <1>1, <1>2, <2>1, <2>2 DEF Processed
<1>4. CASE Moved(ss, r, t)
  <2>1. /\ t.disposition = "Accepted"
        /\ t.snapshot \in Accepts(ss.host, r)
        /\ ~Refused(ss.host, r)
    BY <1>4 DEF Moved, Transition
  <2>2. Accepted(gs) = Accepted(ss) \cup {r.id}
    BY <2>1, AcceptedStep
  <2>3. gs.host.processed = IF r.kind = "Ability"
                              THEN ss.host.processed \cup {r.id} ELSE ss.host.processed
    BY <1>1, <2>1, AcceptedMoves DEF Typed, Good
  <2>4. r.kind # "PassiveChoice"
    BY <2>1 DEF Accepts
  <2> QED
    BY <1>1, <1>2, <2>2, <2>3, <2>4 DEF Processed, MayRefuse
<1> QED
  BY <1>3, <1>4 DEF Extends

(* Whatever ends a turn was asked for in that turn, and leaves it behind.  *)
LEMMA PastStep ==
  ASSUME NEW ss, Typed(ss), Past(ss), NEW r \in Request, NEW t, NEW gs,
         Extends(ss, r, t, gs)
  PROVE  Past(gs)
<1>1. /\ r.id \notin DOMAIN ss.ledger
      /\ gs.host = t.snapshot
      /\ gs.ledger[r.id].request = r
      /\ \A id \in DOMAIN ss.ledger : gs.ledger[id] = ss.ledger[id]
  BY DEF Extends
<1>2. Enders(ss) \subseteq DOMAIN ss.ledger
  BY DEF Accepted, Enders
<1>3. CASE t = Rejection(ss)
  <2>1. t.disposition = "Rejected" /\ t.snapshot = ss.host
    BY <1>3 DEF Rejection, Transition
  <2>2. Accepted(gs) = Accepted(ss)
    BY <2>1, AcceptedStep
  <2>3. Enders(gs) = Enders(ss)
    BY <1>1, <2>2 DEF Enders, Accepted
  <2> QED
    BY <1>1, <1>2, <2>1, <2>3 DEF Past
<1>4. CASE Moved(ss, r, t)
  <2> DEFINE s == ss.host
  <2>1. /\ t.disposition = "Accepted"
        /\ t.snapshot \in Accepts(s, r)
        /\ ~Refused(s, r)
    BY <1>4 DEF Moved, Transition
  <2>2. /\ s \in State /\ Good(s)
        /\ s.turn \in Nat
    BY DEF Typed, Good, State
  <2>3. /\ Progress(s, t.snapshot)
        /\ Open(s)
        /\ EndsItsTurn(r) => EndsTurn(s, t.snapshot)
        /\ Good(t.snapshot)
    BY <2>1, <2>2, AcceptedMoves
  <2>4. r.turn = s.turn
    BY <2>1 DEF Refused
  <2>5. Accepted(gs) = Accepted(ss) \cup {r.id}
    BY <2>1, AcceptedStep
  <2>6. /\ \A id \in Enders(gs) : id \in Enders(ss) \/ id = r.id
        /\ r.id \in Enders(gs) => EndsItsTurn(r)
    BY <1>1, <2>5 DEF Enders, Accepted
  <2>7. ~Final(s)
    BY <2>3 DEF Open, Final
  <2>8. \A id \in Enders(ss) :
          /\ gs.ledger[id].request.turn = ss.ledger[id].request.turn
          /\ ss.ledger[id].request.turn \in Nat
          /\ ss.ledger[id].request.turn < s.turn
    BY <1>1, <1>2, <2>7 DEF Past, Typed, Request
  <2>9. /\ t.snapshot.turn \in Nat
        /\ \/ t.snapshot.turn = s.turn /\ (Final(t.snapshot) \/ Open(t.snapshot))
           \/ t.snapshot.turn = s.turn + 1
    BY <2>3, <2>7 DEF Good, State, Progress, Kept, Handed, Ended
  <2>10. EndsItsTurn(r) => \/ r.turn < t.snapshot.turn
                           \/ r.turn = t.snapshot.turn /\ Final(t.snapshot)
    BY <2>2, <2>3, <2>4, <2>9 DEF EndsTurn, Open
  <2> HIDE DEF s
  <2>11. \A id \in Enders(gs) :
           \/ gs.ledger[id].request.turn < gs.host.turn
           \/ gs.ledger[id].request.turn = gs.host.turn /\ Final(gs.host)
    BY <1>1, <2>2, <2>6, <2>8, <2>9, <2>10
  <2>12. \A a, b \in Enders(gs) :
           a # b => gs.ledger[a].request.turn # gs.ledger[b].request.turn
    BY <1>1, <2>2, <2>4, <2>6, <2>8 DEF Past
  <2> QED
    BY <2>11, <2>12 DEF Past
<1> QED
  BY <1>3, <1>4 DEF Extends

-----------------------------------------------------------------------------
(* A session stays sound, whoever asks and whatever comes of it.           *)

LEMMA NewIsSound == Sound(NewSession(Start(InitialState)))
<1> DEFINE h  == Start(InitialState)
           ss == NewSession(h)
<1>1. /\ ss.host = h
      /\ ss.generation = 0
      /\ ss.bytes = 0
      /\ DOMAIN ss.ledger = {}
      /\ ss.ledger = [id \in DOMAIN ss.ledger |-> ss.ledger[id]]
      /\ Shaped(ss)
  BY DEF NewSession, Shaped
<1>2. Good(h) /\ h.processed = {}
  BY StartIsGood, StartAccounts
<1> HIDE DEF ss, h
<1>3. /\ IsFiniteSet(DOMAIN ss.ledger)
      /\ Cardinality(DOMAIN ss.ledger) = 0
      /\ Accepted(ss) = {}
      /\ Mutations(ss) = {}
      /\ Enders(ss) = {}
      /\ Cardinality(DOMAIN ss.ledger \ Accepted(ss)) = 0
      /\ Cardinality(Mutations(ss)) = 0
      /\ Cardinality(Accepted(ss)) = 0
  <2>1. /\ Accepted(ss) = {}
        /\ Mutations(ss) = {}
        /\ Enders(ss) = {}
        /\ DOMAIN ss.ledger \ Accepted(ss) = {}
    BY <1>1 DEF Accepted, Mutations, Enders
  <2> QED
    BY <1>1, <2>1, FS_EmptySet
<1>4. Typed(ss)
  <2>1. ss.ledger \in [DOMAIN ss.ledger -> [request : Request, transition : Receipts]]
    <3> DEFINE ledger == ss.ledger
    <3> HIDE DEF ledger
    <3>1. /\ ledger = [id \in DOMAIN ledger |-> ledger[id]]
          /\ \A id \in DOMAIN ledger : FALSE
      BY <1>1 DEF ledger
    <3> QED
      BY <3>1 DEF ledger
  <2> QED
    BY <1>1, <1>2, <1>3, <2>1 DEF Typed
<1>5. Versioned(ss)
  BY <1>1, <1>3 DEF Versioned
<1>6. Measured(ss)
  <2>1. /\ EntryBytes["Accepted"] \in Nat /\ EntryBytes["Rejected"] \in Nat
        /\ EntryLimit \in Nat /\ ByteLimit \in Nat
    BY LedgerAssumption DEF Recorded
  <2>2. LedgerBytes(ss) = 0
    BY <1>3, <2>1 DEF LedgerBytes
  <2> QED
    BY <1>1, <1>3, <2>1, <2>2 DEF Measured
<1>7. Processed(ss) /\ Past(ss)
  BY <1>1, <1>2, <1>3 DEF Processed, Past
<1> QED
  BY <1>4, <1>5, <1>6, <1>7 DEF Sound, ss, h

LEMMA ClosedStaysSound ==
  ASSUME NEW ss, Sound(ss)
  PROVE  Sound(Close(ss))
<1> DEFINE cs == Close(ss)
<1>1. /\ cs.host = ss.host
      /\ cs.generation = ss.generation
      /\ cs.ledger = ss.ledger
      /\ cs.bytes = ss.bytes
      /\ Shaped(cs)
  BY DEF Close, Sound, Typed, Shaped
<1> HIDE DEF cs
<1>2. /\ Accepted(cs) = Accepted(ss)
      /\ Mutations(cs) = Mutations(ss)
      /\ LedgerBytes(cs) = LedgerBytes(ss)
      /\ Enders(cs) = Enders(ss)
  BY <1>1 DEF Accepted, Mutations, LedgerBytes, Enders
<1>3. Typed(cs)
  BY <1>1 DEF Sound, Typed
<1>4. Versioned(cs) /\ Measured(cs) /\ Processed(cs) /\ Past(cs)
  BY <1>1, <1>2 DEF Sound, Versioned, Measured, Processed, Past
<1> QED
  BY <1>3, <1>4 DEF Sound, cs

LEMMA OutcomeIsSound ==
  ASSUME NEW ss, Sound(ss), NEW r \in Request, NEW o \in Outcomes(ss, r)
  PROVE  Sound(o.session)
<1>1. Shaped(ss)
  BY DEF Sound, Typed
<1>2. CASE Closes(ss, o)
  BY <1>2, ClosedStaysSound DEF Closes
<1>3. CASE Dropped(ss, o) \/ Repeats(ss, r, o)
  BY <1>3 DEF Dropped, Repeats, Known
<1>4. ASSUME NEW t, Records(ss, r, t, o)
      PROVE  Sound(o.session)
  <2> DEFINE gs == o.session
  <2>1. Extends(ss, r, t, gs)
    BY <1>4, RecordExtends
  <2>2. Typed(ss) /\ Versioned(ss) /\ Measured(ss) /\ Processed(ss) /\ Past(ss)
    BY DEF Sound
  <2>3. /\ ~(Cardinality(DOMAIN ss.ledger) >= EntryLimit)
        /\ ~(ss.bytes + EntryBytes[t.disposition] > ByteLimit)
    BY <1>4 DEF Records
  <2> HIDE DEF gs
  <2>4. Typed(gs) /\ Versioned(gs)
    BY <2>1, <2>2, TypedStep, VersionedStep
  <2>5. Measured(gs)
    BY <2>1, <2>2, <2>3, MeasuredStep
  <2>6. Processed(gs) /\ Past(gs)
    BY <2>1, <2>2, ProcessedStep, PastStep
  <2> QED
    BY <2>4, <2>5, <2>6 DEF Sound, gs
<1> QED
  BY <1>1, <1>2, <1>3, <1>4, OutcomeKinds

-----------------------------------------------------------------------------
(* The inductive invariant: the session is sound, and every first answer   *)
(* the clients were given is on record.                                    *)

OnRecord(ss, past) ==
  \A r \in DOMAIN past :
    /\ r \in Request
    /\ r.id \in DOMAIN ss.ledger
    /\ ss.ledger[r.id] = [request |-> r, transition |-> past[r]]

SInv == Sound(session) /\ OnRecord(session, answered)

LEMMA RequestsTyped ==
  ASSUME Sound(session)
  PROVE  Requests \subseteq Request
<1>1. /\ session.host.turn \in Nat /\ session.host.turn >= 1
      /\ session.generation \in Nat
  BY DEF Sound, Typed, Good, State
<1>2. \A ask \in Asked : ask[1] \in Kind /\ ask[2] \in Slot
  BY AskedAssumption
<1> QED
  BY <1>1, <1>2 DEF Requests, Request

LEMMA SubmitRecords ==
  ASSUME SInv, NEW r \in Request, Submit(r)
  PROVE  SInv'
<1>1. Sound(session) /\ OnRecord(session, answered)
  BY DEF SInv
<1>2. PICK o \in Outcomes(session, r) :
        /\ session' = o.session
        /\ answered' =
             IF o.reply.kind = "Receipt" /\ r \notin DOMAIN answered
               THEN [q \in DOMAIN answered \cup {r} |->
                       IF q = r THEN o.reply.transition ELSE answered[q]]
               ELSE answered
  BY DEF Submit
<1>3. Sound(session')
  BY <1>1, <1>2, OutcomeIsSound
<1>4. Shaped(session)
  BY <1>1 DEF Sound, Typed
<1>5. CASE Closes(session, o) \/ Dropped(session, o) \/ Repeats(session, r, o)
  <2>1. o.reply.kind # "Receipt" /\ o.session.ledger = session.ledger
    <3>1. Close(session).ledger = session.ledger
      BY <1>4 DEF Close, Shaped
    <3>2. /\ Known(session, r).reply.kind # "Receipt"
          /\ Known(session, r).session = session
      BY DEF Known
    <3> QED
      BY <1>5, <3>1, <3>2 DEF Closes, Dropped, Repeats
  <2>2. answered' = answered
    BY <1>2, <2>1
  <2>3. OnRecord(session', answered')
    BY <1>1, <1>2, <2>1, <2>2 DEF OnRecord
  <2> QED
    BY <1>3, <2>3 DEF SInv
<1>6. ASSUME NEW t, Records(session, r, t, o)
      PROVE  SInv'
  <2>1. Extends(session, r, t, o.session)
    BY <1>6, RecordExtends
  <2>2. /\ r.id \notin DOMAIN session.ledger
        /\ o.session.ledger[r.id] = [request |-> r, transition |-> t]
        /\ DOMAIN o.session.ledger = DOMAIN session.ledger \cup {r.id}
        /\ \A id \in DOMAIN session.ledger : o.session.ledger[id] = session.ledger[id]
    BY <2>1 DEF Extends
  <2>3. r \notin DOMAIN answered
    BY <1>1, <2>2 DEF OnRecord
  <2>4. o.reply.kind = "Receipt" /\ o.reply.transition = t
    BY <1>6 DEF Records
  <2>5. answered' = [q \in DOMAIN answered \cup {r} |->
                       IF q = r THEN t ELSE answered[q]]
    BY <1>2, <2>3, <2>4
  <2>6. OnRecord(session', answered')
    BY <1>1, <1>2, <2>2, <2>3, <2>5 DEF OnRecord
  <2> QED
    BY <1>3, <2>6 DEF SInv
<1> QED
  BY <1>4, <1>5, <1>6, OutcomeKinds

LEMMA AskedTyped ==
  ASSUME SInv, Next
  PROVE  \E r \in Request : Submit(r)
<1>1. Requests \subseteq Request
  BY RequestsTyped DEF SInv
<1>2. \A r \in DOMAIN answered : r \in Request
  BY DEF SInv, OnRecord
<1> QED
  BY <1>1, <1>2 DEF Next, Resubmit

(* The session is sound and its ledger remembers, for ever.                *)
THEOREM SessionsAreSound == Spec => []SInv
<1>1. Init => SInv
  <2> SUFFICES ASSUME Init PROVE SInv
    OBVIOUS
  <2>1. Sound(session)
    BY NewIsSound DEF Init
  <2>2. OnRecord(session, answered)
    BY DEF Init, OnRecord
  <2> QED
    BY <2>1, <2>2 DEF SInv
<1>2. SInv /\ [Next]_vars => SInv'
  <2>1. ASSUME SInv, Next PROVE SInv'
    BY <2>1, AskedTyped, SubmitRecords
  <2>2. ASSUME SInv, UNCHANGED vars PROVE SInv'
    BY <2>2 DEF vars, SInv
  <2> QED
    BY <2>1, <2>2
<1> QED
  BY <1>1, <1>2, PTL DEF Spec

-----------------------------------------------------------------------------
(* What follows from it.                                                   *)

(* A retry at any time, after any number of other requests, is given the   *)
(* first receipt again and changes nothing (match_session.rs:2032).        *)
THEOREM RetriesAreSafe == Spec => []AnswersAreFinal
<1>1. SInv => AnswersAreFinal
  <2> SUFFICES ASSUME SInv, ~session.closed, NEW r \in DOMAIN answered
               PROVE  Outcomes(session, r) =
                        {[session |-> session,
                          reply |-> [kind |-> "Replay",
                                     transition |-> Replayed(answered[r])]]}
    BY DEF AnswersAreFinal
  <2>1. /\ r.id \in DOMAIN session.ledger
        /\ session.ledger[r.id] = [request |-> r, transition |-> answered[r]]
    BY DEF SInv, OnRecord
  <2>2. Outcomes(session, r) = {Known(session, r)}
    BY <2>1 DEF Outcomes
  <2>3. Known(session, r) =
          [session |-> session,
           reply |-> [kind |-> "Replay", transition |-> Replayed(answered[r])]]
    BY <2>1 DEF Known
  <2> QED
    BY <2>2, <2>3
<1> QED
  BY <1>1, SessionsAreSound, PTL

(* Everything validate_checkpoint() computes again comes out as it was     *)
(* stored, for every ledger limit (match_session.rs:2441).                 *)
THEOREM RestoreAlwaysAccepts == Spec => []CheckpointsRestore
<1>1. SInv => CheckpointsRestore
  BY DEF SInv, Sound, Typed, Versioned, Measured, Processed, CheckpointsRestore,
         ValidCheckpoint
<1> QED
  BY <1>1, SessionsAreSound, PTL

(* No two accepted requests ended the same turn: of attack, pass and       *)
(* timeout the first wins for good (match_session.rs:2762).                *)
THEOREM TurnsEndOnce == Spec => []OneEndPerTurn
<1>1. SInv => OneEndPerTurn
  <2> SUFFICES ASSUME SInv,
                      NEW a \in DOMAIN session.ledger, NEW b \in DOMAIN session.ledger,
                      Ends(a), Ends(b), a # b
               PROVE  session.ledger[a].request.turn # session.ledger[b].request.turn
    BY DEF OneEndPerTurn
  <2>1. a \in Enders(session) /\ b \in Enders(session)
    BY DEF Ends, Enders, Accepted, EndsItsTurn
  <2> QED
    BY <2>1 DEF SInv, Sound, Past
<1> QED
  BY <1>1, SessionsAreSound, PTL

(* What is valid under an id nobody used and in the present turn is valid  *)
(* under an unused id of the client's, and the other way round.            *)
LEMMA PreviewIsValid ==
  ASSUME NEW ss, Sound(ss), NEW r, r.turn = ss.host.turn,
         r.id \notin DOMAIN ss.ledger
  PROVE  PreviewLegal(ss, r) <=>
           /\ ~ss.closed
           /\ r.generation = ss.generation
           /\ Valid(ss.host, AbilityOf(r))
<1> DEFINE h == ss.host
           c == AbilityOf(r)
           fresh == [h EXCEPT !.processed = {}]
           now == [c EXCEPT !.turn = h.turn]
<1>1. h \in State
  BY DEF Sound, Typed, Good
<1>2. /\ fresh.processed = {} /\ fresh.active = h.active /\ fresh.turn = h.turn
      /\ fresh.charge = h.charge /\ fresh.attacked = h.attacked
      /\ fresh.health = h.health /\ fresh.phase = h.phase /\ fresh.moves = h.moves
  BY <1>1 DEF State
<1>3. now = c
  BY DEF AbilityOf
<1>4. c.id \notin h.processed
  BY DEF Sound, Processed, Accepted, AbilityOf
<1> HIDE DEF fresh, now, c, h
<1>5. /\ Living(fresh) = Living(h)
      /\ AcceptsAbility(fresh) <=> AcceptsAbility(h)
      /\ MaxLaunchPower(fresh) = MaxLaunchPower(h)
  BY <1>2 DEF Living, AcceptsAbility, MaxLaunchPower
<1>6. Valid(fresh, now) <=> Valid(h, c)
  BY <1>2, <1>3, <1>4, <1>5 DEF Valid
<1> QED
  BY <1>6 DEF PreviewLegal, fresh, now, c, h

(* A shot that hits nothing is always possible.                            *)
LEMMA SomethingHappens ==
  ASSUME NEW s \in State, NEW c, c.player \in Player
  PROVE  \E fx \in Effects(s, c) : {} \in SUBSET fx.lost
<1> DEFINE fx == [health |-> s.health, dealt |-> FALSE, lost |-> {}, burnt |-> {},
                  burn |-> 0, turret |-> FALSE]
<1>1. /\ s.health \in [Player -> 0..MaxHealth]
      /\ \A p \in Player : s.health[p] <= s.health[p]
  BY RosterAssumption DEF State
<1>2. fx \in Effects(s, c)
  BY <1>1 DEF Effects
<1> QED
  BY <1>2

(* What a preview calls legal is accepted, unless a limit closes the       *)
(* session first, and what it calls illegal is not, though the two ask     *)
(* along different ways (match_session.rs:1944).                           *)
THEOREM PreviewsAreHonest == Spec => []PreviewForetells
<1>1. SInv => PreviewForetells
  <2> SUFFICES ASSUME SInv, NEW r \in Requests,
                      r.kind = "Ability", r.turn = session.host.turn,
                      r.id \notin DOMAIN session.ledger
               PROVE  LET accepted ==
                            \E outcome \in Outcomes(session, r) :
                              /\ outcome.reply.kind = "Receipt"
                              /\ outcome.reply.transition.disposition = "Accepted"
                      IN  IF PreviewLegal(session, r)
                            THEN accepted \/ AtLimit ELSE ~accepted
    BY DEF PreviewForetells
  <2> DEFINE h == session.host
             accepted == \E outcome \in Outcomes(session, r) :
                           /\ outcome.reply.kind = "Receipt"
                           /\ outcome.reply.transition.disposition = "Accepted"
  <2>1. Sound(session) /\ Shaped(session) /\ h \in State
    BY DEF SInv, Sound, Typed, Good
  <2>2. PreviewLegal(session, r) <=>
          /\ ~session.closed
          /\ r.generation = session.generation
          /\ Valid(h, AbilityOf(r))
    BY <2>1, PreviewIsValid
  <2>3. accepted => PreviewLegal(session, r)
    <3> SUFFICES ASSUME NEW o \in Outcomes(session, r),
                        o.reply.kind = "Receipt",
                        o.reply.transition.disposition = "Accepted"
                 PROVE  PreviewLegal(session, r)
      OBVIOUS
    <3>1. PICK t : Records(session, r, t, o) /\ o.reply.transition = t
      BY <2>1, ReceiptIsOnRecord
    <3>2. Moved(session, r, t) /\ ~session.closed
      BY <3>1 DEF Records, Rejection, Transition
    <3>3. Valid(h, AbilityOf(r))
      BY <3>2 DEF Moved, Accepts
    <3> QED
      BY <2>2, <3>2, <3>3 DEF Moved
  <2>4. ASSUME PreviewLegal(session, r), ~AtLimit
        PROVE  accepted
    <3> DEFINE c == AbilityOf(r)
    <3>1. /\ ~session.closed /\ r.generation = session.generation
          /\ Valid(h, c)
      BY <2>2, <2>4
    <3>2. /\ ~(Cardinality(DOMAIN session.ledger) >= EntryLimit)
          /\ ~(session.bytes + EntryBytes["Accepted"] > ByteLimit)
          /\ ~(session.generation >= MaxGeneration)
      BY <2>4 DEF AtLimit
    <3>3. ~Refused(h, r)
      BY <3>1 DEF Valid, Refused, AbilityOf
    <3>4. c.player \in Player
      BY <3>1 DEF Valid, Living
    <3>5. PICK fx \in Effects(h, c) : {} \in SUBSET fx.lost
      BY <2>1, <3>4, SomethingHappens
    <3> DEFINE u == SubmitAbility(h, c, fx, {})
               t == Transition("Accepted", session.generation,
                      IF u = h THEN session.generation ELSE session.generation + 1, u)
               o == Publish(session, r, u)
    <3>6. u \in Accepts(h, r)
      BY <3>1, <3>5 DEF Accepts
    <3>7. o \in Outcomes(session, r)
      BY <3>1, <3>2, <3>3, <3>6 DEF Outcomes, Execute
    <3>8. o = Receipt(session, r, t)
      BY <3>2 DEF Publish
    <3>9. t.disposition = "Accepted"
      BY DEF Transition
    <3>10. ~Record(session, r, t).closed
      BY <2>1, <3>1, <3>2, <3>9 DEF Record, Shaped
    <3>11. o.reply = [kind |-> "Receipt", transition |-> t]
      BY <3>8, <3>10 DEF Receipt
    <3> QED
      BY <3>7, <3>9, <3>11
  <2> QED
    BY <2>3, <2>4
<1> QED
  BY <1>1, SessionsAreSound, PTL

(* The host changes only with its receipt, and a fault changes nothing but *)
(* the session's being open (match_session.rs:2400, 2430).                 *)
THEOREM NothingChangesUnrecorded == Spec => ChangesAreReceipted
<1> DEFINE Receipted ==
             /\ session'.host # session.host =>
                  \E id \in DOMAIN session'.ledger \ DOMAIN session.ledger :
                    LET r == session'.ledger[id].request
                        t == session'.ledger[id].transition
                    IN  /\ r.turn = session.host.turn
                        /\ r.generation = session.generation
                        /\ r.player = session.host.active
                        /\ t = Transition("Accepted", session.generation,
                                          session.generation + 1, session'.host)
                        /\ session'.generation = session.generation + 1
             /\ session'.closed => session' = [session EXCEPT !.closed = TRUE]
<1>1. ASSUME SInv, NEW r \in Request, Submit(r)
      PROVE  Receipted
  <2>1. Shaped(session) /\ session.generation \in Nat
    BY <1>1 DEF SInv, Sound, Typed
  <2>2. PICK o \in Outcomes(session, r) : session' = o.session
    BY <1>1 DEF Submit
  <2>3. CASE Closes(session, o)
    BY <2>1, <2>2, <2>3 DEF Closes, Close, Shaped
  <2>4. CASE Dropped(session, o) \/ Repeats(session, r, o)
    <3>1. session' = session
      BY <2>2, <2>4 DEF Dropped, Repeats, Known
    <3> QED
      BY <2>1, <3>1 DEF Shaped
  <2>5. ASSUME NEW t, Records(session, r, t, o)
        PROVE  Receipted
    <3>1. Extends(session, r, t, session') /\ ~session'.closed
      BY <2>2, <2>5, RecordExtends
    <3>2. /\ r.id \in DOMAIN session'.ledger \ DOMAIN session.ledger
          /\ session'.ledger[r.id] = [request |-> r, transition |-> t]
          /\ session'.host = t.snapshot
          /\ session'.generation = t.post
      BY <3>1 DEF Extends
    <3>3. ASSUME session'.host # session.host
          PROVE  /\ r.turn = session.host.turn
                 /\ r.generation = session.generation
                 /\ r.player = session.host.active
                 /\ t = Transition("Accepted", session.generation,
                                   session.generation + 1, session'.host)
                 /\ session'.generation = session.generation + 1
      <4>1. t # Rejection(session)
        BY <3>2, <3>3 DEF Rejection, Transition
      <4>2. Moved(session, r, t)
        BY <3>1, <4>1 DEF Extends
      <4>3. t = Transition("Accepted", session.generation,
                           session.generation + 1, session'.host)
        BY <3>2, <3>3, <4>2 DEF Moved
      <4>4. t.post = session.generation + 1
        BY <4>3 DEF Transition
      <4> QED
        BY <3>2, <4>2, <4>3, <4>4 DEF Moved, Refused
    <3> QED
      BY <3>1, <3>2, <3>3
  <2> QED
    BY <2>1, <2>3, <2>4, <2>5, OutcomeKinds
<1>2. SInv /\ [Next]_vars => [Receipted]_vars
  BY <1>1, AskedTyped
<1> QED
  BY <1>2, SessionsAreSound, PTL DEF Spec, ChangesAreReceipted

=============================================================================
