--------------------------- MODULE ServiceProofs ---------------------------
(***************************************************************************)
(* Theorems about Service, for every replay input, fleet, window, capacity *)
(* and number of failures.                                                 *)
(***************************************************************************)
EXTENDS Service, SetLemmas

Event == [vehicle : Vehicles, timestamp : Int]
AckOf == [row : Nat, outcome : {"wait", "ok", "err"}]

\* The stored event s, as far as the raw stream goes.
Events == DOMAIN raw

-----------------------------------------------------------------------------
(* Arithmetic of the loops.                                                *)

\* A multiple of a loop's length ends a loop.
LEMMA EndOfLoops == \A a \in Nat, b \in Nat \ {0} : (b * a) % b = 0
  OBVIOUS

\* A remainder is less than what it is divided by.
LEMMA RemainderFacts == \A a \in Nat, b \in Nat \ {0} : a % b \in Nat /\ a % b < b
  OBVIOUS

-----------------------------------------------------------------------------
(* The producer.                                                           *)

ReplayTypes ==
    /\ input \in Inputs /\ sent \in Nat /\ sent <= Total
    /\ wire \in Seq([row : Nat]) /\ acks \in Seq(AckOf)
    /\ producer \in {"run", "done", "failed"}
    /\ raw \in Seq(Event)

\* The broker takes the publishes in order: what is left is the last rows.
WireIsTheRest ==
    /\ Len(wire) <= sent
    /\ \A i \in DOMAIN wire : wire[i].row = sent - Len(wire) + i

\* The producer still waits for every row on the wire, and a row that has an
\* outcome has left the wire.
AcksMatch ==
    /\ \A i \in DOMAIN acks :
          /\ acks[i].row \in 1 .. sent
          /\ acks[i].outcome # "wait" => acks[i].row <= sent - Len(wire)
    /\ \A i \in DOMAIN wire : \E j \in DOMAIN acks :
          acks[j].row = wire[i].row /\ acks[j].outcome = "wait"

\* As long as no refusal or lost confirmation is known or about to be, the raw
\* stream is what has left the wire.
StoredInOrder ==
    (producer # "failed" /\ \A i \in DOMAIN acks : acks[i].outcome # "err") =>
        raw = [i \in 1 .. sent - Len(wire) |-> RowOf(i)]

DoneIsDone == producer = "done" => sent = Total /\ acks = <<>> /\ wire = <<>>

ReplayInv ==
    ReplayTypes /\ WireIsTheRest /\ AcksMatch /\ StoredInOrder /\ DoneIsDone

\* What the producer and the broker's intake are made of.
intake == <<input, sent, wire, acks, producer, raw>>

\* No other step has to do with the producer.
LEMMA OthersLeaveIntake ==
    [Next]_vars => \/ Send \/ Await \/ Finish \/ Store("ok") \/ Store("err") \/ Refuse
                   \/ UNCHANGED intake
  BY DEF Next, Producer, Pod, Viewer, vars, replay, broker, intake, Pull, LosePull, Redeliver,
         Warm, Drop, Emit, NoMatch, Record, Ack, StartPod, EndPod, Ingest, LoseDiff, evict_idle

\* The number of events and the rows of an input.
LEMMA InputFacts ==
    ASSUME input \in Inputs
    PROVE  /\ Total \in Nat /\ Len(input.rows) \in Nat
           /\ \A i \in 1 .. Total : RowOf(i) \in Event
           /\ Total # 0 => Total % Len(input.rows) = 0
<1>1. input.rows \in Seq(Event) /\ input.loops \in Nat /\ Len(input.rows) \in Nat
  <2>1. input \in [rows : Seq(Event), loops : Nat]
    BY ServiceAssumption DEF Event
  <2> QED
    BY <2>1
<1>2. Total \in Nat
  BY <1>1 DEF Total
<1>3. Total # 0 => Len(input.rows) # 0
  BY <1>1 DEF Total
<1>4. Total # 0 => Total % Len(input.rows) = 0
  BY <1>1, <1>3, EndOfLoops DEF Total
<1>5. ASSUME NEW i \in 1 .. Total PROVE RowOf(i) \in Event
  <2>1. Len(input.rows) \in Nat \ {0}
    BY <1>1, <1>2, <1>3
  <2>2. i - 1 \in Nat
    BY <1>2
  <2> DEFINE rest == (i - 1) % Len(input.rows)
  <2>5. rest \in Nat /\ rest < Len(input.rows)
    BY <2>1, <2>2, RemainderFacts, Zenon
  <2>3. rest + 1 \in 1 .. Len(input.rows)
    <3> HIDE DEF rest
    <3> QED
      BY <2>1, <2>5
  <2>4. RowOf(i) = input.rows[rest + 1]
    BY Zenon DEF RowOf
  <2> HIDE DEF rest
  <2> QED
    BY <1>1, <2>3, <2>4
<1> QED
  BY <1>1, <1>2, <1>4, <1>5

\* The invariant of the producer holds initially.
LEMMA ReplayInit == Init => ReplayInv
<1> SUFFICES ASSUME Init PROVE ReplayInv
  OBVIOUS
<1>1. Total \in Nat
  BY InputFacts DEF Init
<1>2. raw = [i \in 1 .. sent - Len(wire) |-> RowOf(i)]
  BY DEF Init
<1> QED
  BY <1>1, <1>2 DEF Init, ReplayInv, ReplayTypes, WireIsTheRest, AcksMatch, StoredInOrder, DoneIsDone

\* A publish: one more row on the wire, and one more confirmation to wait for.
LEMMA SendStep == ReplayInv /\ Send => ReplayInv'
<1> SUFFICES ASSUME ReplayInv, Send PROVE ReplayInv'
  OBVIOUS
<1> DEFINE n == sent + 1
           row == [row |-> n]
           ack == [row |-> n, outcome |-> "wait"]
<1>0. /\ sent' = n /\ wire' = Append(wire, row) /\ acks' = Append(acks, ack)
      /\ producer = "run" /\ sent < Total /\ UNCHANGED <<input, producer, raw>>
  BY DEF Send, broker
<1>1. /\ sent \in Nat /\ n \in Nat /\ Total \in Nat /\ wire \in Seq([row : Nat]) /\ acks \in Seq(AckOf)
      /\ Len(wire) \in Nat /\ Len(wire) <= sent
  BY InputFacts DEF ReplayInv, ReplayTypes, WireIsTheRest
<1>2. /\ wire' \in Seq([row : Nat]) /\ Len(wire') = Len(wire) + 1
      /\ \A i \in DOMAIN wire : wire'[i] = wire[i]
      /\ wire'[Len(wire) + 1].row = n
      /\ DOMAIN wire' = DOMAIN wire \cup {Len(wire) + 1}
  BY <1>0, <1>1
<1>3. /\ acks' \in Seq(AckOf) /\ DOMAIN acks' = DOMAIN acks \cup {Len(acks) + 1}
      /\ \A i \in DOMAIN acks : acks'[i] = acks[i]
      /\ acks'[Len(acks) + 1] = ack
  BY <1>0, <1>1 DEF AckOf
<1>4. sent' - Len(wire') = sent - Len(wire) /\ Total' = Total
  BY <1>0, <1>1, <1>2 DEF Total
<1> HIDE DEF n, row, ack
<1>5. ReplayTypes'
  BY <1>0, <1>1, <1>2, <1>3, <1>4 DEF ReplayInv, ReplayTypes, n
<1>6. WireIsTheRest'
  <2>1. \A i \in DOMAIN wire : wire'[i].row = sent' - Len(wire') + i
    BY <1>2, <1>4 DEF ReplayInv, WireIsTheRest
  <2>2. wire'[Len(wire) + 1].row = sent' - Len(wire') + (Len(wire) + 1)
    BY <1>0, <1>1, <1>2 DEF n
  <2>3. Len(wire') <= sent'
    BY <1>0, <1>1, <1>2 DEF n
  <2> QED
    BY <1>2, <2>1, <2>2, <2>3 DEF WireIsTheRest
<1>7. AcksMatch'
  <2>1. \A i \in DOMAIN acks' : /\ acks'[i].row \in 1 .. sent'
                                /\ acks'[i].outcome # "wait" => acks'[i].row <= sent' - Len(wire')
    BY <1>0, <1>1, <1>3, <1>4 DEF ReplayInv, AcksMatch, n, ack
  <2>2. \A i \in DOMAIN wire' : \E j \in DOMAIN acks' :
             acks'[j].row = wire'[i].row /\ acks'[j].outcome = "wait"
    BY <1>2, <1>3 DEF ReplayInv, AcksMatch, ack
  <2> QED
    BY <2>1, <2>2 DEF AcksMatch
<1>8. StoredInOrder'
  <2> SUFFICES ASSUME \A i \in DOMAIN acks' : acks'[i].outcome # "err"
               PROVE  raw' = [i \in 1 .. sent' - Len(wire') |-> RowOf(i)']
    BY <1>0 DEF StoredInOrder
  <2>1. \A i \in DOMAIN acks : acks[i].outcome # "err"
    BY <1>3
  <2>2. raw = [i \in 1 .. sent - Len(wire) |-> RowOf(i)]
    BY <1>0, <2>1 DEF ReplayInv, StoredInOrder
  <2> QED
    BY <1>0, <1>4, <2>2 DEF RowOf
<1>9. DoneIsDone'
  BY <1>0 DEF DoneIsDone
<1> QED
  BY <1>5, <1>6, <1>7, <1>8, <1>9 DEF ReplayInv

\* An outcome is awaited: the others are still to come.
LEMMA AwaitStep == ReplayInv /\ Await => ReplayInv'
<1> SUFFICES ASSUME ReplayInv, Await PROVE ReplayInv'
  OBVIOUS
<1>0. UNCHANGED <<input, sent, wire, raw>> /\ producer = "run"
  BY DEF Await, broker
<1>1. PICK k \in DOMAIN acks :
         /\ acks[k].outcome # "wait" /\ acks' = RemoveAt(acks, k)
         /\ producer' = IF acks[k].outcome = "err" THEN "failed" ELSE producer
  BY DEF Await
<1>2. acks \in Seq(AckOf)
  BY DEF ReplayInv, ReplayTypes
<1>3. /\ acks' \in Seq(AckOf) /\ Len(acks') = Len(acks) - 1
      /\ \A i \in 1 .. Len(acks) - 1 : acks'[i] = IF i < k THEN acks[i] ELSE acks[i + 1]
  BY <1>1, <1>2, RemoveAtFacts
<1>4. \A i \in DOMAIN acks' : \E j \in DOMAIN acks : acks'[i] = acks[j]
  <2> TAKE i \in DOMAIN acks'
  <2>1. i \in 1 .. Len(acks) - 1 /\ Len(acks) \in Nat /\ k \in 1 .. Len(acks)
    BY <1>1, <1>2, <1>3
  <2>2. i \in DOMAIN acks /\ i + 1 \in DOMAIN acks
    BY <1>2, <2>1
  <2> QED
    BY <1>3, <2>1, <2>2
<1>5. \A j \in DOMAIN acks : j # k => \E i \in DOMAIN acks' : acks'[i] = acks[j]
  <2> SUFFICES ASSUME NEW j \in DOMAIN acks, j # k PROVE \E i \in DOMAIN acks' : acks'[i] = acks[j]
    OBVIOUS
  <2>1. Len(acks) \in Nat /\ k \in 1 .. Len(acks) /\ j \in 1 .. Len(acks)
    BY <1>1, <1>2
  <2>2. CASE j < k
    <3>1. j \in 1 .. Len(acks) - 1
      BY <2>1, <2>2
    <3> QED
      BY <1>3, <2>2, <3>1
  <2>3. CASE ~ (j < k)
    <3>1. j - 1 \in 1 .. Len(acks) - 1 /\ ~ (j - 1 < k) /\ (j - 1) + 1 = j
      BY <2>1, <2>3
    <3>2. acks'[j - 1] = acks[j] /\ j - 1 \in DOMAIN acks'
      BY <1>3, <3>1
    <3> QED
      BY <3>2
  <2> QED
    BY <2>2, <2>3
<1>6. ReplayTypes'
  BY <1>0, <1>1, <1>3 DEF ReplayInv, ReplayTypes, Total
<1>7. WireIsTheRest'
  BY <1>0 DEF ReplayInv, WireIsTheRest
<1>8. AcksMatch'
  <2>1. \A i \in DOMAIN wire : \E j \in DOMAIN acks' :
             acks'[j].row = wire[i].row /\ acks'[j].outcome = "wait"
    BY <1>1, <1>5 DEF ReplayInv, AcksMatch
  <2>2. \A i \in DOMAIN acks' : /\ acks'[i].row \in 1 .. sent
                                /\ acks'[i].outcome # "wait" => acks'[i].row <= sent - Len(wire)
    BY <1>4 DEF ReplayInv, AcksMatch
  <2> QED
    BY <1>0, <2>1, <2>2 DEF AcksMatch
<1>9. StoredInOrder'
  <2> SUFFICES ASSUME producer' # "failed", \A i \in DOMAIN acks' : acks'[i].outcome # "err"
               PROVE  raw' = [i \in 1 .. sent' - Len(wire') |-> RowOf(i)']
    BY DEF StoredInOrder
  <2>1. \A i \in DOMAIN acks : acks[i].outcome # "err"
    BY <1>1, <1>5
  <2>2. raw = [i \in 1 .. sent - Len(wire) |-> RowOf(i)]
    BY <1>0, <2>1 DEF ReplayInv, StoredInOrder
  <2> QED
    BY <1>0, <2>2 DEF RowOf
<1>10. DoneIsDone'
  BY <1>0, <1>1 DEF DoneIsDone
<1> QED
  BY <1>6, <1>7, <1>8, <1>9, <1>10 DEF ReplayInv

\* The program ends: the end of the last loop has awaited everything.
LEMMA FinishStep == ReplayInv /\ Finish => ReplayInv'
<1> SUFFICES ASSUME ReplayInv, Finish PROVE ReplayInv'
  OBVIOUS
<1>0. UNCHANGED <<input, sent, wire, acks, raw>> /\ producer = "run" /\ producer' = "done"
  BY DEF Finish, broker
<1>1. sent = Total /\ ~ MustWait /\ Total \in Nat
  BY InputFacts DEF Finish, ReplayInv, ReplayTypes
<1>2. acks = <<>>
  <2>1. CASE Total = 0
    <3>1. acks \in Seq(AckOf) /\ \A i \in DOMAIN acks : acks[i].row \in 1 .. 0
      BY <1>1, <2>1 DEF ReplayInv, ReplayTypes, AcksMatch
    <3>2. ASSUME NEW i \in DOMAIN acks PROVE FALSE
      BY <3>1
    <3> QED
      BY <3>1, <3>2, NoIndexIsEmpty
  <2>2. CASE Total # 0
    <3>1. Total > 0 /\ Total % Len(input.rows) = 0
      <4>1. Total % Len(input.rows) = 0
        BY <2>2, InputFacts, Zenon DEF ReplayInv, ReplayTypes
      <4>2. Total > 0
        BY <1>1, <2>2
      <4> QED
        BY <4>1, <4>2, Zenon
    <3>2. EndOfLoop
      BY <1>1, <3>1, Zenon DEF EndOfLoop
    <3> QED
      BY <1>1, <3>2 DEF MustWait
  <2> QED
    BY <2>1, <2>2
<1>3. wire = <<>>
  <2>1. wire \in Seq([row : Nat]) /\ \A j \in DOMAIN acks : FALSE
    BY <1>2 DEF ReplayInv, ReplayTypes
  <2>2. \A i \in DOMAIN wire : FALSE
    BY <2>1 DEF ReplayInv, AcksMatch
  <2> QED
    BY <2>1, <2>2, NoIndexIsEmpty
<1>4. ReplayTypes' /\ WireIsTheRest' /\ AcksMatch'
  BY <1>0 DEF ReplayInv, ReplayTypes, WireIsTheRest, AcksMatch, Total
<1>5. StoredInOrder'
  BY <1>0 DEF ReplayInv, StoredInOrder, RowOf
<1>6. DoneIsDone'
  BY <1>0, <1>1, <1>2, <1>3 DEF DoneIsDone, Total
<1> QED
  BY <1>4, <1>5, <1>6 DEF ReplayInv

\* The broker settles the row at the head of the wire.
LEMMA SettleFacts ==
    ASSUME ReplayInv, wire # <<>>, NEW outcome \in {"ok", "err"},
           Settle(Head(wire).row, outcome), wire' = Tail(wire), UNCHANGED <<input, sent, producer>>
    PROVE  LET n == sent - Len(wire) + 1 IN
           /\ n \in 1 .. Total /\ Head(wire).row = n /\ sent' - Len(wire') = n
           /\ acks' \in Seq(AckOf) /\ wire' \in Seq([row : Nat]) /\ WireIsTheRest' /\ AcksMatch'
           /\ producer = "done" => FALSE
           /\ \E i \in DOMAIN acks' : acks'[i].outcome = outcome
           /\ (\A i \in DOMAIN acks' : acks'[i].outcome # "err") =>
                  \A i \in DOMAIN acks : acks[i].outcome # "err"
<1> DEFINE n == sent - Len(wire) + 1
<1>1. /\ sent \in Nat /\ sent <= Total /\ Total \in Nat /\ wire \in Seq([row : Nat]) /\ acks \in Seq(AckOf)
      /\ Len(wire) \in Nat /\ Len(wire) <= sent /\ Len(wire) # 0
  BY InputFacts DEF ReplayInv, ReplayTypes, WireIsTheRest
<1>2. /\ wire' \in Seq([row : Nat]) /\ Len(wire') = Len(wire) - 1 /\ Head(wire) = wire[1]
      /\ \A i \in 1 .. Len(wire) - 1 : wire'[i] = wire[i + 1]
  BY <1>1
<1>3. n \in 1 .. Total /\ Head(wire).row = n /\ sent' - Len(wire') = n
  <2>1. n \in 1 .. Total /\ sent' - Len(wire') = n
    BY <1>1, <1>2
  <2>2. 1 \in DOMAIN wire
    BY <1>1
  <2>3. wire[1].row = sent - Len(wire) + 1
    BY <2>2 DEF ReplayInv, WireIsTheRest
  <2> QED
    BY <1>2, <2>1, <2>3
<1>4. acks' = [i \in DOMAIN acks |->
                 IF acks[i].row = n THEN [acks[i] EXCEPT !.outcome = outcome] ELSE acks[i]]
  BY <1>3 DEF Settle
<1> HIDE DEF n
<1>5. /\ DOMAIN acks' = DOMAIN acks /\ acks' \in Seq(AckOf)
      /\ \A i \in DOMAIN acks : /\ acks'[i].row = acks[i].row
                                /\ acks'[i].outcome = IF acks[i].row = n THEN outcome ELSE acks[i].outcome
  <2>1. \A i \in DOMAIN acks : acks[i] \in AckOf
    BY <1>1
  <2>2. \A i \in DOMAIN acks : acks'[i] \in AckOf
    BY <1>4, <2>1 DEF AckOf
  <2>3. Len(acks) \in Nat /\ DOMAIN acks' = 1 .. Len(acks) /\ DOMAIN acks = 1 .. Len(acks)
    BY <1>1, <1>4
  <2>4. acks' = [i \in 1 .. Len(acks) |-> acks'[i]]
    BY <1>4, <2>3
  <2>5. acks' \in Seq(AckOf)
    BY <2>2, <2>3, <2>4
  <2> QED
    BY <1>4, <2>1, <2>3, <2>5 DEF AckOf
<1>6. WireIsTheRest'
  <2>1. ASSUME NEW i \in DOMAIN wire' PROVE wire'[i].row = sent' - Len(wire') + i
    <3>1. i \in 1 .. Len(wire) - 1 /\ i + 1 \in DOMAIN wire
      BY <1>1, <1>2
    <3>2. wire'[i].row = sent - Len(wire) + (i + 1)
      BY <1>2, <3>1 DEF ReplayInv, WireIsTheRest
    <3> QED
      BY <1>1, <1>3, <3>1, <3>2 DEF n
  <2> QED
    BY <1>1, <1>2, <2>1 DEF WireIsTheRest
<1>7. AcksMatch'
  <2>1. ASSUME NEW i \in DOMAIN acks'
        PROVE  /\ acks'[i].row \in 1 .. sent'
               /\ acks'[i].outcome # "wait" => acks'[i].row <= sent' - Len(wire')
    <3>1. /\ i \in DOMAIN acks /\ acks[i].row \in 1 .. sent
          /\ acks[i].outcome # "wait" => acks[i].row <= sent - Len(wire)
      BY <1>5, <2>1 DEF ReplayInv, AcksMatch
    <3>2. acks'[i].row = acks[i].row /\ (acks[i].row # n => acks'[i].outcome = acks[i].outcome)
      BY <1>5, <3>1
    <3>3. sent - Len(wire) <= n /\ n \in Nat /\ sent - Len(wire) \in Int
      BY <1>1 DEF n
    <3>4. acks'[i].outcome # "wait" => acks[i].row <= n
      BY <1>1, <3>1, <3>2, <3>3
    <3> QED
      BY <1>3, <3>1, <3>2, <3>4
  <2>2. ASSUME NEW i \in DOMAIN wire'
        PROVE  \E j \in DOMAIN acks' : acks'[j].row = wire'[i].row /\ acks'[j].outcome = "wait"
    <3>1. i \in 1 .. Len(wire) - 1 /\ i + 1 \in DOMAIN wire /\ wire'[i] = wire[i + 1]
      BY <1>1, <1>2
    <3>2. PICK j \in DOMAIN acks : acks[j].row = wire[i + 1].row /\ acks[j].outcome = "wait"
      BY <3>1 DEF ReplayInv, AcksMatch
    <3>3. wire[i + 1].row # n
      BY <1>1, <3>1 DEF ReplayInv, WireIsTheRest, n
    <3> QED
      BY <1>5, <3>1, <3>2, <3>3
  <2> QED
    BY <2>1, <2>2 DEF AcksMatch
<1>8. producer = "done" => FALSE
  BY DEF ReplayInv, DoneIsDone
<1>9. PICK k \in DOMAIN acks : acks[k].row = n
  <2>1. 1 \in DOMAIN wire /\ wire[1].row = n
    BY <1>1, <1>2, <1>3
  <2> QED
    BY <2>1 DEF ReplayInv, AcksMatch
<1>10. \A i \in DOMAIN acks : acks[i].row = n => acks[i].outcome = "wait"
  <2>1. \A i \in DOMAIN acks : acks[i].outcome # "wait" => acks[i].row <= sent - Len(wire)
    BY DEF ReplayInv, AcksMatch
  <2>2. ~ (n <= sent - Len(wire))
    BY <1>1 DEF n
  <2> QED
    BY <2>1, <2>2
<1>11. (\A i \in DOMAIN acks' : acks'[i].outcome # "err") => \A i \in DOMAIN acks : acks[i].outcome # "err"
  BY <1>5, <1>10
<1> QED
  BY <1>2, <1>3, <1>5, <1>6, <1>7, <1>8, <1>9, <1>11 DEF n

\* A row is stored, in its place.
LEMMA StoreStep ==
    ASSUME NEW outcome \in {"ok", "err"}, ReplayInv, Store(outcome)
    PROVE  ReplayInv'
<1> DEFINE n == sent - Len(wire) + 1
<1>0. /\ wire # <<>> /\ Settle(Head(wire).row, outcome) /\ wire' = Tail(wire)
      /\ UNCHANGED <<input, sent, producer>> /\ raw' = Append(raw, RowOf(Head(wire).row))
  BY DEF Store
<1>1. /\ n \in 1 .. Total /\ Head(wire).row = n /\ sent' - Len(wire') = n
      /\ acks' \in Seq(AckOf) /\ wire' \in Seq([row : Nat]) /\ WireIsTheRest' /\ AcksMatch'
      /\ producer = "done" => FALSE
      /\ (\A i \in DOMAIN acks' : acks'[i].outcome # "err") =>
             \A i \in DOMAIN acks : acks[i].outcome # "err"
  BY <1>0, SettleFacts
<1>2. raw' = Append(raw, RowOf(n)) /\ RowOf(n) \in Event /\ raw \in Seq(Event)
  BY <1>0, <1>1, InputFacts DEF ReplayInv, ReplayTypes
<1>3. sent - Len(wire) = n - 1 /\ n - 1 \in Nat
  BY <1>1 DEF ReplayInv, ReplayTypes
<1> HIDE DEF n
<1>4. ReplayTypes'
  BY <1>0, <1>1, <1>2 DEF ReplayInv, ReplayTypes, Total
<1>5. StoredInOrder'
  <2> SUFFICES ASSUME producer' # "failed", \A i \in DOMAIN acks' : acks'[i].outcome # "err"
               PROVE  raw' = [i \in 1 .. sent' - Len(wire') |-> RowOf(i)']
    BY DEF StoredInOrder
  <2>1. raw = [i \in 1 .. n - 1 |-> RowOf(i)]
    BY <1>0, <1>1, <1>3 DEF ReplayInv, StoredInOrder
  <2>2. Len(raw) = n - 1
    BY <1>2, <1>3, <2>1
  <2>3. raw' = [i \in 1 .. n |-> RowOf(i)]
    <3>1. raw' \in Seq(Event) /\ Len(raw') = n /\ raw'[n] = RowOf(n)
      <4>1. Len(raw) + 1 = n
        BY <1>1, <2>2
      <4>2. raw' \in Seq(Event) /\ Len(raw') = Len(raw) + 1 /\ raw'[Len(raw) + 1] = RowOf(n)
        BY <1>2
      <4> QED
        BY <4>1, <4>2
    <3>2. \A i \in 1 .. n - 1 : raw'[i] = raw[i] /\ raw[i] = RowOf(i)
      BY <1>2, <1>3, <2>1, <2>2
    <3>3. \A i \in 1 .. n : raw'[i] = RowOf(i)
      BY <1>3, <3>1, <3>2
    <3>4. raw' = [i \in 1 .. n |-> raw'[i]]
      BY <3>1
    <3> QED
      BY <3>3, <3>4
  <2> QED
    BY <1>0, <1>1, <2>3 DEF RowOf
<1>6. DoneIsDone'
  BY <1>0, <1>1 DEF DoneIsDone
<1> QED
  BY <1>1, <1>4, <1>5, <1>6 DEF ReplayInv

\* A row is refused: the producer will hear of it.
LEMMA RefuseStep == ReplayInv /\ Refuse => ReplayInv'
<1> SUFFICES ASSUME ReplayInv, Refuse PROVE ReplayInv'
  OBVIOUS
<1>0. /\ wire # <<>> /\ Settle(Head(wire).row, "err") /\ wire' = Tail(wire)
      /\ UNCHANGED <<input, sent, producer, raw>>
  BY DEF Refuse, broker
<1>1. /\ acks' \in Seq(AckOf) /\ wire' \in Seq([row : Nat]) /\ WireIsTheRest' /\ AcksMatch'
      /\ producer = "done" => FALSE
      /\ \E i \in DOMAIN acks' : acks'[i].outcome = "err"
  BY <1>0, SettleFacts
<1>2. ReplayTypes'
  BY <1>0, <1>1 DEF ReplayInv, ReplayTypes, Total
<1>3. StoredInOrder' /\ DoneIsDone'
  BY <1>0, <1>1 DEF StoredInOrder, DoneIsDone
<1> QED
  BY <1>1, <1>2, <1>3 DEF ReplayInv

\* Every step keeps the producer's invariant.
LEMMA ReplayStep == ReplayInv /\ [Next]_vars => ReplayInv'
<1> SUFFICES ASSUME ReplayInv, [Next]_vars PROVE ReplayInv'
  OBVIOUS
<1>1. CASE UNCHANGED intake
  BY <1>1 DEF intake, ReplayInv, ReplayTypes, WireIsTheRest, AcksMatch, StoredInOrder, DoneIsDone, Total, RowOf
<1> QED
  BY <1>1, OthersLeaveIntake, SendStep, AwaitStep, FinishStep, StoreStep, RefuseStep

\* The invariant of the producer holds in every state.
LEMMA ReplayAlways == Spec => []ReplayInv
  BY ReplayInit, ReplayStep, PTL DEF Spec

\* replay ends well only when the raw stream has every row of every loop, once
\* and in order (bin/replay.rs and its window of acknowledgements).
THEOREM ReplayCompletes == Spec => []ReplayIsComplete
<1>1. ReplayInv => ReplayIsComplete
  <2> SUFFICES ASSUME ReplayInv, producer = "done" PROVE raw = [i \in 1 .. Total |-> RowOf(i)]
    BY DEF ReplayIsComplete
  <2>1. sent - Len(wire) = Total /\ ~ \E i \in DOMAIN acks : TRUE
    BY InputFacts DEF ReplayInv, ReplayTypes, DoneIsDone
  <2> QED
    BY <2>1 DEF ReplayInv, StoredInOrder
<1> QED
  BY <1>1, ReplayAlways, PTL

-----------------------------------------------------------------------------
(* The pods.                                                               *)

Stages == {"idle", "process", "archive", "ack"}
PodState == [job : Nat, pc : Stages, lane : [Vehicles -> SUBSET (SUBSET Nat)]]

FleetTypes ==
    /\ fresh \subseteq Events /\ pending \subseteq Events /\ acked \subseteq Events
    /\ recorded \subseteq Events /\ emitted \subseteq Events
    /\ owners \subseteq Pods /\ torn \in BOOLEAN
    /\ pod \in [Pods -> PodState]
    /\ tail \in [Vehicles -> Seq(Nat)]

JobsExist == \A p \in Pods : pod[p].pc # "idle" => pod[p].job \in Events

\* Whoever has recorded them, a lane and a tail hold recorded events of their vehicle.
LanesRecorded ==
    \A p \in Pods, v \in Vehicles : \A entries \in pod[p].lane[v] : \A r \in entries :
        r \in recorded /\ Vehicle(r) = v

TailsRecorded ==
    \A v \in Vehicles : \A i \in DOMAIN tail[v] : tail[v][i] \in recorded /\ Vehicle(tail[v][i]) = v

Covered(s) == \E r \in recorded : Vehicle(r) = Vehicle(s) /\ Time(s) <= Time(r)

AckIsSafe == \A p \in Pods : pod[p].pc = "ack" => Covered(pod[p].job)

FleetInv ==
    FleetTypes /\ JobsExist /\ LanesRecorded /\ TailsRecorded /\ AckIsSafe /\ ResizeLosesNothing

\* What is stored stays as it is.
LEMMA RawGrows ==
    ASSUME ReplayInv, [Next]_vars
    PROVE  /\ raw \in Seq(Event) /\ raw' \in Seq(Event)
           /\ Events \subseteq Events' /\ \A s \in Events : raw'[s] = raw[s]
           /\ Events \subseteq Nat \ {0} /\ Len(raw) \in Nat /\ Events = 1 .. Len(raw)
<1>1. raw \in Seq(Event) /\ raw' \in Seq(Event)
  BY ReplayStep DEF ReplayInv, ReplayTypes
<1>2. raw' = raw \/ \E e : raw' = Append(raw, e)
  BY OthersLeaveIntake DEF Send, Await, Finish, Store, Refuse, broker, intake
<1>3. CASE raw' = raw
  BY <1>1, <1>3 DEF Events
<1>4. CASE \E e : raw' = Append(raw, e)
  <2>1. PICK e : raw' = Append(raw, e)
    BY <1>4
  <2>2. Len(raw) \in Nat /\ Len(raw') = Len(raw) + 1 /\ DOMAIN raw' = 1 .. Len(raw) + 1
        /\ \A s \in 1 .. Len(raw) : raw'[s] = raw[s]
    BY <1>1, <2>1
  <2> QED
    BY <1>1, <2>2 DEF Events
<1> QED
  BY <1>2, <1>3, <1>4

\* One pod's state is set.
LEMMA SetFacts ==
    ASSUME pod \in [Pods -> PodState], NEW p \in Pods, NEW x \in PodState, Set(p, x)
    PROVE  /\ pod' \in [Pods -> PodState] /\ pod'[p] = x
           /\ \A q \in Pods : q # p => pod'[q] = pod[q]
  BY DEF Set

\* get_many reads entries of the tail.
LEMMA LastNEntries ==
    ASSUME NEW S, NEW t \in Seq(S), NEW n \in Nat \ {0}
    PROVE  /\ LastN(t, n) \in Seq(S)
           /\ \A i \in DOMAIN LastN(t, n) : \E j \in DOMAIN t : LastN(t, n)[i] = t[j]
           /\ t # <<>> => t[Len(t)] \in ToSet(LastN(t, n))
<1>1. CASE Len(t) <= n
  <2>1. LastN(t, n) = t
    BY <1>1 DEF LastN
  <2>2. t # <<>> => Len(t) \in DOMAIN t
    OBVIOUS
  <2> QED
    BY <2>1, <2>2 DEF ToSet
<1>2. CASE ~ (Len(t) <= n)
  <2> DEFINE k == Len(t) - n + 1
             u == SubSeq(t, k, Len(t))
  <2>1. LastN(t, n) = u
    BY <1>2 DEF LastN
  <2>2. k \in 2 .. Len(t) /\ Len(t) \in Nat /\ Len(t) - k + 1 = n
    BY <1>2
  <2>3. u \in Seq(S) /\ Len(u) = n /\ \A i \in 1 .. n : u[i] = t[k + i - 1]
    BY <2>2
  <2>4. \A i \in DOMAIN u : k + i - 1 \in DOMAIN t /\ u[i] = t[k + i - 1]
    BY <2>2, <2>3
  <2>5. n \in DOMAIN u /\ u[n] = t[Len(t)]
    <3>1. n \in 1 .. n /\ k + n - 1 = Len(t)
      BY <2>2
    <3> HIDE DEF u
    <3> QED
      BY <2>3, <3>1
  <2> HIDE DEF u
  <2> QED
    BY <2>1, <2>3, <2>4, <2>5 DEF ToSet
<1> QED
  BY <1>1, <1>2

\* A covered event stays covered.
LEMMA CoveredStays ==
    ASSUME ReplayInv, FleetTypes, [Next]_vars, recorded \subseteq recorded', NEW s \in Events, Covered(s)
    PROVE  Covered(s)'
<1>1. PICK r \in recorded : Vehicle(r) = Vehicle(s) /\ Time(s) <= Time(r)
  BY DEF Covered
<1>2. raw'[r] = raw[r] /\ raw'[s] = raw[s] /\ r \in recorded'
  BY RawGrows DEF FleetTypes
<1> QED
  BY <1>1, <1>2 DEF Covered, Vehicle, Time

\* Tails that are left alone, or appended to.
LEMMA TailsStay ==
    ASSUME ReplayInv, FleetInv, [Next]_vars, UNCHANGED store
    PROVE  /\ TailsRecorded' /\ recorded' \subseteq Events' /\ recorded \subseteq recorded'
           /\ tail' \in [Vehicles -> Seq(Nat)]
<1>1. \A r \in recorded : r \in Events /\ raw'[r] = raw[r]
  BY RawGrows DEF FleetInv, FleetTypes
<1> QED
  BY <1>1, RawGrows DEF FleetInv, FleetTypes, TailsRecorded, store, Vehicle

\* A step that sets the state of one pod.
LEMMA PodStep ==
    ASSUME ReplayInv, FleetInv, [Next]_vars, NEW p \in Pods, NEW x \in PodState, Set(p, x),
           fresh' \subseteq Events', pending' \subseteq Events', emitted' \subseteq Events',
           owners' \subseteq Pods, torn' \in BOOLEAN,
           TailsRecorded', recorded' \subseteq Events', recorded \subseteq recorded',
           tail' \in [Vehicles -> Seq(Nat)],
           x.pc # "idle" => x.job \in Events,
           \A v \in Vehicles : \A entries \in x.lane[v] : \A r \in entries :
               r \in recorded' /\ raw'[r].vehicle = v,
           x.pc = "ack" => \E r \in recorded' : /\ raw'[r].vehicle = raw'[x.job].vehicle
                                                /\ raw'[x.job].timestamp <= raw'[r].timestamp,
           acked' \subseteq acked \cup {s \in Events : Covered(s)}
    PROVE  FleetInv'
<1>1. /\ pod \in [Pods -> PodState] /\ acked \subseteq Events /\ recorded \subseteq Events
  BY DEF FleetInv, FleetTypes
<1>2. /\ pod' \in [Pods -> PodState] /\ pod'[p] = x
      /\ \A q \in Pods : q # p => pod'[q] = pod[q]
  BY <1>1, SetFacts
<1>3. Events \subseteq Events' /\ \A s \in Events : raw'[s] = raw[s]
  BY RawGrows
<1>4. \A s \in Events : Covered(s) => Covered(s)'
  BY CoveredStays DEF FleetInv
<1>5. FleetTypes'
  BY <1>1, <1>2, <1>3 DEF FleetTypes
<1>6. JobsExist'
  BY <1>2, <1>3 DEF FleetInv, JobsExist
<1>7. LanesRecorded'
  <2> SUFFICES ASSUME NEW q \in Pods, NEW v \in Vehicles, NEW entries \in pod'[q].lane[v],
                      NEW r \in entries
               PROVE  r \in recorded' /\ raw'[r].vehicle = v
    BY DEF LanesRecorded, Vehicle
  <2>1. CASE q = p
    BY <1>2, <2>1
  <2>2. CASE q # p
    <3>1. r \in recorded /\ raw[r].vehicle = v
      BY <1>2, <2>2 DEF FleetInv, LanesRecorded, Vehicle
    <3> QED
      BY <1>1, <1>3, <3>1
  <2> QED
    BY <2>1, <2>2
<1>8. AckIsSafe'
  <2> SUFFICES ASSUME NEW q \in Pods, pod'[q].pc = "ack" PROVE Covered(pod[q].job)'
    BY DEF AckIsSafe
  <2>1. CASE q = p
    BY <1>2, <2>1 DEF Covered, Vehicle, Time
  <2>2. CASE q # p
    <3>1. pod'[q] = pod[q] /\ pod[q].job \in Events /\ Covered(pod[q].job)
      BY <1>2, <2>2 DEF FleetInv, AckIsSafe, JobsExist
    <3>2. \A s : s \in Events /\ Covered(s) => Covered(s)'
      BY <1>4
    <3> DEFINE s == pod[q].job
    <3>3. Covered(s)'
      BY <3>1, <3>2 DEF Covered, Vehicle, Time
    <3> QED
      BY <3>3
  <2> QED
    BY <2>1, <2>2
<1>9. ResizeLosesNothing'
  <2> SUFFICES ASSUME NEW s \in acked' PROVE Covered(s)'
    BY DEF ResizeLosesNothing, Covered
  <2>1. s \in Events /\ Covered(s)
    BY <1>1 DEF FleetInv, ResizeLosesNothing, Covered
  <2> QED
    BY <1>4, <2>1
<1> QED
  BY <1>5, <1>6, <1>7, <1>8, <1>9 DEF FleetInv

\* A step of the fleet that leaves the pods alone.
LEMMA PodsStay ==
    ASSUME ReplayInv, FleetInv, [Next]_vars, UNCHANGED <<pod, store, acked, emitted>>,
           fresh' \subseteq Events', pending' \subseteq Events',
           owners' \subseteq Pods, torn' \in BOOLEAN
    PROVE  FleetInv'
<1>1. Events \subseteq Events' /\ \A s \in Events : raw'[s] = raw[s]
  BY RawGrows
<1>2. /\ TailsRecorded' /\ recorded' \subseteq Events' /\ recorded \subseteq recorded'
      /\ tail' \in [Vehicles -> Seq(Nat)]
  BY TailsStay
<1>3. \A s \in Events : Covered(s) => Covered(s)'
  BY <1>2, CoveredStays DEF FleetInv
<1>4. FleetTypes' /\ JobsExist'
  BY <1>1, <1>2 DEF FleetInv, FleetTypes, JobsExist
<1>5. LanesRecorded'
  BY <1>1 DEF FleetInv, FleetTypes, LanesRecorded, Vehicle, store
<1>6. AckIsSafe'
  <2> SUFFICES ASSUME NEW q \in Pods, pod[q].pc = "ack" PROVE Covered(pod[q].job)'
    BY DEF AckIsSafe
  <2> DEFINE s == pod[q].job
  <2>1. s \in Events /\ Covered(s)
    BY DEF FleetInv, AckIsSafe, JobsExist
  <2>2. Covered(s)'
    BY <2>1, <1>3 DEF Covered, Vehicle, Time
  <2> QED
    BY <2>2 DEF Covered, Vehicle, Time
<1>7. ResizeLosesNothing'
  <2> SUFFICES ASSUME NEW s \in acked' PROVE Covered(s)'
    BY DEF ResizeLosesNothing, Covered
  <2>1. s \in Events /\ Covered(s)
    BY DEF FleetInv, FleetTypes, ResizeLosesNothing, Covered
  <2> QED
    BY <1>3, <2>1
<1> QED
  BY <1>2, <1>4, <1>5, <1>6, <1>7 DEF FleetInv

\* The fleet starts with nothing recorded and nothing acknowledged.
LEMMA FleetInit == Init => FleetInv
<1> SUFFICES ASSUME Init PROVE FleetInv
  OBVIOUS
<1>1. Idle \in PodState /\ Idle.pc = "idle" /\ \A v \in Vehicles : Idle.lane[v] = {}
  BY DEF Idle, PodState, Stages
<1>2. FleetTypes
  <2>1. pod \in [Pods -> PodState] /\ tail \in [Vehicles -> Seq(Nat)]
    BY <1>1 DEF Init
  <2>2. owners \subseteq Pods /\ torn \in BOOLEAN
    BY DEF Init
  <2> QED
    BY <2>1, <2>2 DEF Init, FleetTypes
<1>3. JobsExist /\ AckIsSafe /\ LanesRecorded
  BY <1>1 DEF Init, JobsExist, AckIsSafe, LanesRecorded
<1>4. TailsRecorded /\ ResizeLosesNothing
  BY DEF Init, TailsRecorded, ResizeLosesNothing
<1> QED
  BY <1>2, <1>3, <1>4 DEF FleetInv

\* What the state of a pod is made of.
LEMMA PodFacts ==
    ASSUME ReplayInv, FleetInv, NEW p \in Pods
    PROVE  /\ pod[p] \in PodState
           /\ \A v \in Vehicles : \A entries \in pod[p].lane[v] : \A r \in entries :
                  r \in recorded /\ raw[r].vehicle = v /\ r \in Events
           /\ pod[p].pc # "idle" => pod[p].job \in Events /\ Vehicle(pod[p].job) \in Vehicles
                                    /\ Time(pod[p].job) \in Int
           /\ raw \in Seq(Event)
<1>1. raw \in Seq(Event) /\ \A s \in Events : raw[s] \in Event
  BY DEF ReplayInv, ReplayTypes, Events
<1>2. \A s \in Events : Vehicle(s) \in Vehicles /\ Time(s) \in Int
  BY <1>1 DEF Event, Vehicle, Time
<1> QED
  BY <1>1, <1>2 DEF FleetInv, FleetTypes, JobsExist, LanesRecorded, Vehicle

\* A pod takes an event, of the queue or of the ones it has delivered before.
LEMMA TakeStep ==
    ASSUME ReplayInv, FleetInv, [Next]_vars, NEW p \in Pods, Pull(p) \/ Redeliver(p)
    PROVE  FleetInv'
<1>1. /\ fresh \subseteq Events /\ pending \subseteq Events /\ Events \subseteq Nat
      /\ Events \subseteq Events' /\ emitted \subseteq Events /\ owners \subseteq Pods
      /\ torn \in BOOLEAN /\ \A s \in Events : raw'[s] = raw[s]
  BY RawGrows DEF FleetInv, FleetTypes
<1>2. UNCHANGED <<store, acked, emitted, owners, torn>>
  BY DEF Pull, Redeliver, broker, fleet, viewer
<1>3. \E s \in Events : Set(p, [pod[p] EXCEPT !.job = s, !.pc = "process"])
      /\ fresh' \subseteq Events /\ pending' \subseteq Events
  <2>1. CASE Pull(p)
    <3>1. fresh # {} /\ Min(fresh) \in Events
      BY <1>1, <2>1, MinFacts DEF Pull
    <3> QED
      BY <1>1, <2>1, <3>1 DEF Pull
  <2>2. CASE Redeliver(p)
    BY <1>1, <2>2 DEF Redeliver, broker
  <2> QED
    BY <2>1, <2>2
<1>4. PICK s \in Events : Set(p, [pod[p] EXCEPT !.job = s, !.pc = "process"])
      /\ fresh' \subseteq Events /\ pending' \subseteq Events
  BY <1>3
<1> DEFINE x == [pod[p] EXCEPT !.job = s, !.pc = "process"]
<1>5. x \in PodState /\ x.pc = "process" /\ x.job = s /\ x.lane = pod[p].lane
  <2>1. pod[p] \in PodState /\ s \in Nat
    BY <1>1, PodFacts
  <2> QED
    BY <2>1 DEF PodState, Stages
<1>6. \A v \in Vehicles : \A entries \in x.lane[v] : \A r \in entries :
          r \in recorded' /\ raw'[r].vehicle = v
  BY <1>1, <1>2, <1>5, PodFacts DEF store
<1>7. Set(p, x)
  BY <1>4
<1> HIDE DEF x
<1> QED
  BY <1>1, <1>2, <1>4, <1>5, <1>6, <1>7, TailsStay, PodStep

\* The first event of a vehicle warms its lane from the tail.
LEMMA WarmStep ==
    ASSUME ReplayInv, FleetInv, [Next]_vars, NEW p \in Pods, Warm(p)
    PROVE  FleetInv'
<1> DEFINE v == Vehicle(pod[p].job)
           lane == {ToSet(LastN(tail[v], WarmLimit))}
           x == [pod[p] EXCEPT !.lane[v] = lane]
<1>1. /\ fresh \subseteq Events /\ pending \subseteq Events /\ Events \subseteq Nat
      /\ Events \subseteq Events' /\ emitted \subseteq Events /\ owners \subseteq Pods
      /\ recorded \subseteq Events
      /\ torn \in BOOLEAN /\ \A s \in Events : raw'[s] = raw[s]
  BY RawGrows DEF FleetInv, FleetTypes
<1>2. UNCHANGED <<store, fresh, pending, acked, emitted, owners, torn>> /\ pod[p].pc = "process"
      /\ Set(p, x)
  BY DEF Warm, broker, fleet, viewer, At
<1>3. v \in Vehicles /\ pod[p].job \in Events /\ pod[p] \in PodState
  BY <1>2, PodFacts
<1>4. \A r \in ToSet(LastN(tail[v], WarmLimit)) : r \in recorded /\ raw[r].vehicle = v
  <2>1. tail[v] \in Seq(Nat) /\ WarmLimit \in Nat \ {0}
    BY <1>3, ServiceAssumption DEF FleetInv, FleetTypes
  <2>2. \A i \in DOMAIN LastN(tail[v], WarmLimit) : \E j \in DOMAIN tail[v] :
            LastN(tail[v], WarmLimit)[i] = tail[v][j]
    BY <2>1, LastNEntries
  <2> HIDE DEF v
  <2> QED
    BY <1>3, <2>2 DEF FleetInv, TailsRecorded, Vehicle, ToSet
<1>5. \A r \in ToSet(LastN(tail[v], WarmLimit)) : r \in recorded' /\ raw'[r].vehicle = v
  BY <1>1, <1>2, <1>4 DEF store
<1>6. lane \in SUBSET (SUBSET Nat)
  BY <1>1, <1>4
<1> HIDE DEF lane
<1>7. x \in PodState /\ x.pc = "process" /\ x.job = pod[p].job
      /\ x.lane = [pod[p].lane EXCEPT ![v] = lane]
  BY <1>2, <1>3, <1>6 DEF PodState
<1>8. \A w \in Vehicles : x.lane[w] = IF w = v THEN lane ELSE pod[p].lane[w]
  BY <1>3, <1>7 DEF PodState
<1> HIDE DEF x
<1>9. \A w \in Vehicles : \A entries \in x.lane[w] : \A r \in entries :
          r \in recorded' /\ raw'[r].vehicle = w
  <2> SUFFICES ASSUME NEW w \in Vehicles, NEW entries \in x.lane[w], NEW r \in entries
               PROVE  r \in recorded' /\ raw'[r].vehicle = w
    OBVIOUS
  <2>1. CASE w = v
    BY <1>5, <1>8, <2>1 DEF lane
  <2>2. CASE w # v
    BY ZenonT(30), <1>1, <1>2, <1>8, <2>2, PodFacts DEF store
  <2> QED
    BY <2>1, <2>2
<1> QED
  BY <1>1, <1>2, <1>3, <1>7, <1>9, TailsStay, PodStep

\* A pod moves on and its lanes stay as they are.
LEMMA StageStep ==
    ASSUME ReplayInv, FleetInv, [Next]_vars, UNCHANGED <<store, fresh, owners, torn>>,
           NEW p \in Pods, NEW pc \in Stages, NEW job \in Nat,
           Set(p, [pod[p] EXCEPT !.job = job, !.pc = pc]),
           pc # "idle" => job \in Events,
           pc = "ack" => Covered(job),
           emitted' \subseteq Events, pending' \subseteq Events,
           acked' \subseteq acked \cup {s \in Events : Covered(s)}
    PROVE  FleetInv'
<1> DEFINE x == [pod[p] EXCEPT !.job = job, !.pc = pc]
<1>1. /\ fresh \subseteq Events /\ Events \subseteq Events' /\ owners \subseteq Pods
      /\ torn \in BOOLEAN /\ \A s \in Events : raw'[s] = raw[s]
  BY RawGrows DEF FleetInv, FleetTypes
<1>2. pod[p] \in PodState /\ \A v \in Vehicles : \A entries \in pod[p].lane[v] : \A r \in entries :
          r \in recorded /\ raw[r].vehicle = v /\ r \in Events
  BY PodFacts
<1>3. x \in PodState /\ x.pc = pc /\ x.job = job /\ x.lane = pod[p].lane
  BY <1>2 DEF PodState
<1>4. \A v \in Vehicles : \A entries \in x.lane[v] : \A r \in entries :
          r \in recorded' /\ raw'[r].vehicle = v
  BY <1>1, <1>2, <1>3 DEF store
<1>5. Set(p, x)
  OBVIOUS
<1> HIDE DEF x
<1>6. pc = "ack" => Covered(job)'
  BY TailsStay, CoveredStays DEF FleetInv, Stages
<1>7. x.pc = "ack" => \E r \in recorded' : /\ raw'[r].vehicle = raw'[x.job].vehicle
                                           /\ raw'[x.job].timestamp <= raw'[r].timestamp
  BY <1>3, <1>6 DEF Covered, Vehicle, Time
<1>8. emitted' \subseteq Events' /\ pending' \subseteq Events' /\ fresh' \subseteq Events'
      /\ owners' \subseteq Pods /\ torn' \in BOOLEAN
  BY <1>1
<1> QED
  BY <1>3, <1>4, <1>5, <1>7, <1>8, TailsStay, PodStep

\* Setting what a pod has is setting nothing.
LEMMA SamePc ==
    ASSUME ReplayInv, FleetInv, NEW p \in Pods, NEW pc,
           Set(p, [pod[p] EXCEPT !.pc = pc])
    PROVE  Set(p, [pod[p] EXCEPT !.job = pod[p].job, !.pc = pc]) /\ pod[p].job \in Nat
<1>1. pod[p] \in PodState
  BY PodFacts
<1>2. [pod[p] EXCEPT !.job = pod[p].job, !.pc = pc] = [pod[p] EXCEPT !.pc = pc]
  BY <1>1 DEF PodState
<1> QED
  BY <1>1, <1>2 DEF PodState

\* The event is stale, matched nothing, or was solved and published.
LEMMA ProcessStep ==
    ASSUME ReplayInv, FleetInv, [Next]_vars, NEW p \in Pods,
           Drop(p) \/ NoMatch(p) \/ \E b \in BOOLEAN : Emit(p, b)
    PROVE  FleetInv'
<1>1. /\ UNCHANGED <<store, fresh, pending, acked, owners, torn>>
      /\ pod[p].pc = "process" /\ emitted' \subseteq emitted \cup {pod[p].job}
  BY DEF Drop, NoMatch, Emit, broker, fleet, viewer, At
<1>2. pod[p].job \in Events /\ emitted \subseteq Events /\ pending \subseteq Events
      /\ Vehicle(pod[p].job) \in Vehicles
  BY <1>1, PodFacts DEF FleetInv, FleetTypes
<1>3. CASE Drop(p)
  <2>1. PICK r \in Lane(p) : Time(pod[p].job) <= Time(r)
    BY <1>3 DEF Drop, Stale
  <2>2. Covered(pod[p].job)
    BY <1>2, <2>1, PodFacts DEF Lane, Covered, Vehicle
  <2>3. Set(p, [pod[p] EXCEPT !.pc = "ack"]) /\ "ack" \in Stages
    BY <1>3 DEF Drop, Stages
  <2>4. /\ pod[p].job \in Nat /\ Set(p, [pod[p] EXCEPT !.job = pod[p].job, !.pc = "ack"])
    BY <2>3, SamePc
  <2> QED
    BY <1>1, <1>2, <2>2, <2>3, <2>4, StageStep
<1>4. CASE NoMatch(p) \/ \E b \in BOOLEAN : Emit(p, b)
  <2>1. PICK pc \in {"process", "archive"} : Set(p, [pod[p] EXCEPT !.pc = pc])
    BY <1>4 DEF NoMatch, Emit
  <2>2. /\ pod[p].job \in Nat /\ Set(p, [pod[p] EXCEPT !.job = pod[p].job, !.pc = pc])
    BY <2>1, SamePc
  <2>3. pc \in Stages /\ pc # "ack"
    BY DEF Stages
  <2>4. emitted' \subseteq Events /\ pending' \subseteq Events /\ acked' \subseteq acked \cup {s \in Events : Covered(s)}
    BY <1>1, <1>2
  <2> QED
    BY <1>1, <1>2, <2>2, <2>3, <2>4, StageStep
<1> QED
  BY <1>3, <1>4

\* Only what is covered is acknowledged, and a lost ack changes nothing but the pod.
LEMMA AckStep ==
    ASSUME ReplayInv, FleetInv, [Next]_vars, NEW p \in Pods, NEW lost \in BOOLEAN, Ack(p, lost)
    PROVE  FleetInv'
<1>1. /\ UNCHANGED <<store, fresh, owners, torn, emitted>> /\ pod[p].pc = "ack"
      /\ pending' \subseteq pending /\ acked' \subseteq acked \cup {pod[p].job}
      /\ Set(p, [pod[p] EXCEPT !.job = 0, !.pc = "idle"]) /\ "idle" \in Stages
  BY DEF Ack, fleet, viewer, At, Stages
<1>2. pod[p].job \in Events /\ emitted \subseteq Events /\ pending \subseteq Events
      /\ Covered(pod[p].job)
  BY <1>1, PodFacts DEF FleetInv, FleetTypes, AckIsSafe
<1>3. acked' \subseteq acked \cup {s \in Events : Covered(s)} /\ emitted' \subseteq Events
      /\ pending' \subseteq Events
  BY <1>1, <1>2
<1> QED
  BY <1>1, <1>3, StageStep

\* The event joins the tail and the lane: from here it covers itself.
LEMMA RecordStep ==
    ASSUME ReplayInv, FleetInv, [Next]_vars, NEW p \in Pods, Record(p)
    PROVE  FleetInv'
<1> DEFINE s == pod[p].job
           v == Vehicle(s)
           lane == {Lane(p) \cup {s}}
           x == [pod[p] EXCEPT !.pc = "ack", !.lane[v] = lane]
<1>1. /\ UNCHANGED <<fresh, pending, acked, owners, torn, emitted, raw>> /\ pod[p].pc = "archive"
      /\ tail' = [tail EXCEPT ![v] = Append(@, s)] /\ recorded' = recorded \cup {s}
      /\ Set(p, x)
  BY DEF Record, fleet, viewer, broker, At
<1>2. /\ pod[p] \in PodState /\ s \in Events /\ v \in Vehicles /\ Time(s) \in Int
      /\ raw[s].vehicle = v
      /\ \A w \in Vehicles : \A entries \in pod[p].lane[w] : \A r \in entries :
             r \in recorded /\ raw[r].vehicle = w /\ r \in Events
  BY <1>1, PodFacts DEF Vehicle
<1>3. \A r \in Lane(p) : r \in recorded /\ raw[r].vehicle = v /\ r \in Events
  BY <1>2 DEF Lane
<1>4. /\ fresh \subseteq Events /\ pending \subseteq Events /\ Events \subseteq Nat
      /\ emitted \subseteq Events /\ owners \subseteq Pods
      /\ torn \in BOOLEAN /\ tail \in [Vehicles -> Seq(Nat)] /\ recorded \subseteq Events
      /\ TailsRecorded
  BY RawGrows DEF FleetInv, FleetTypes
<1> HIDE DEF s, v
<1>5. lane \in SUBSET (SUBSET Nat)
  BY <1>2, <1>3, <1>4
<1>6. \A r \in Lane(p) \cup {s} : r \in recorded' /\ raw[r].vehicle = v
  BY <1>1, <1>2, <1>3
<1> HIDE DEF lane
<1>7. x \in PodState /\ x.pc = "ack" /\ x.job = s
      /\ \A w \in Vehicles : x.lane[w] = IF w = v THEN lane ELSE pod[p].lane[w]
  BY <1>2, <1>5 DEF PodState, Stages, s
<1> HIDE DEF x
<1>8. \A w \in Vehicles : \A entries \in x.lane[w] : \A r \in entries :
          r \in recorded' /\ raw'[r].vehicle = w
  <2> SUFFICES ASSUME NEW w \in Vehicles, NEW entries \in x.lane[w], NEW r \in entries
               PROVE  r \in recorded' /\ raw[r].vehicle = w
    BY <1>1
  <2>1. CASE w = v
    BY <1>6, <1>7, <2>1 DEF lane
  <2>2. CASE w # v
    BY <1>1, <1>2, <1>7, <2>2
  <2> QED
    BY <2>1, <2>2
<1>9. \A w \in Vehicles : tail'[w] \in Seq(Nat)
        /\ \A i \in DOMAIN tail'[w] : tail'[w][i] \in recorded' /\ raw[tail'[w][i]].vehicle = w
  <2> SUFFICES ASSUME NEW w \in Vehicles
               PROVE  tail'[w] \in Seq(Nat)
                      /\ \A i \in DOMAIN tail'[w] : tail'[w][i] \in recorded' /\ raw[tail'[w][i]].vehicle = w
    OBVIOUS
  <2>1. tail[w] \in Seq(Nat) /\ \A i \in DOMAIN tail[w] : tail[w][i] \in recorded /\ raw[tail[w][i]].vehicle = w
    BY <1>4 DEF TailsRecorded, Vehicle
  <2>2. CASE w = v
    <3>1. tail'[w] = Append(tail[w], s) /\ s \in Nat
      BY <1>1, <1>2, <1>4, <2>2
    <3>2. tail'[w] \in Seq(Nat) /\ \A i \in DOMAIN tail'[w] :
             tail'[w][i] = s \/ (i \in DOMAIN tail[w] /\ tail'[w][i] = tail[w][i])
      BY <2>1, <3>1
    <3> QED
      BY <1>1, <1>2, <2>1, <2>2, <3>2
  <2>3. CASE w # v
    <3>1. tail'[w] = tail[w]
      BY <1>1, <1>2, <1>4, <2>3
    <3>2. recorded \subseteq recorded'
      BY <1>1
    <3> HIDE DEF lane, x
    <3> QED
      BY <2>1, <3>1, <3>2
  <2> QED
    BY <2>2, <2>3
<1>10. tail' \in [Vehicles -> Seq(Nat)] /\ TailsRecorded'
  <2>1. tail' = [w \in Vehicles |-> tail'[w]]
    BY <1>1, <1>4
  <2> QED
    BY <1>1, <1>9, <2>1 DEF TailsRecorded, Vehicle
<1>11. \E r \in recorded' : /\ raw'[r].vehicle = raw'[x.job].vehicle
                            /\ raw'[x.job].timestamp <= raw'[r].timestamp
  <2>1. s \in recorded' /\ raw'[s] = raw[s] /\ raw[s].timestamp <= raw[s].timestamp
    BY <1>1, <1>2 DEF Time
  <2> QED
    BY <1>7, <2>1
<1>12. Events' = Events
  BY <1>1 DEF Events
<1>13. Set(p, x) /\ (x.pc # "idle" => x.job \in Events) /\ recorded' \subseteq Events' /\ recorded \subseteq recorded'
  BY <1>1, <1>2, <1>4, <1>7, <1>12
<1>14. /\ fresh' \subseteq Events' /\ pending' \subseteq Events' /\ emitted' \subseteq Events'
       /\ owners' \subseteq Pods /\ torn' \in BOOLEAN /\ acked' \subseteq acked
  BY <1>1, <1>4, <1>12
<1> QED
  BY <1>7, <1>8, <1>10, <1>11, <1>13, <1>14, PodStep

\* Every step keeps the fleet's invariant.
LEMMA FleetStep == ReplayInv /\ FleetInv /\ [Next]_vars => FleetInv'
<1> SUFFICES ASSUME ReplayInv, FleetInv, [Next]_vars PROVE FleetInv'
  OBVIOUS
<1>0. /\ fresh \subseteq Events /\ pending \subseteq Events /\ Events \subseteq Events'
      /\ owners \subseteq Pods /\ torn \in BOOLEAN /\ Events \subseteq Nat
      /\ raw \in Seq(Event) /\ raw' \in Seq(Event) /\ recorded \subseteq Events
      /\ \A s \in Events : raw'[s] = raw[s]
  BY RawGrows DEF FleetInv, FleetTypes
<1>1. CASE Send \/ Await \/ Finish \/ Refuse \/ Viewer \/ UNCHANGED vars
  <2>1. UNCHANGED <<pod, store, acked, emitted, fresh, pending, owners, torn>>
    BY <1>1 DEF Send, Await, Finish, Refuse, Viewer, Ingest, LoseDiff, evict_idle, broker, fleet, viewer, vars
  <2> QED
    BY <1>0, <2>1, PodsStay
<1>2. ASSUME NEW outcome \in {"ok", "err"}, Store(outcome) PROVE FleetInv'
  <2>1. /\ UNCHANGED <<pod, store, acked, emitted, pending, owners, torn>>
        /\ fresh' = fresh \cup {Len(raw) + 1}
    BY <1>2 DEF Store, fleet, viewer
  <2>2. Len(raw) + 1 \in Events'
    <3>1. raw' = Append(raw, RowOf(Head(wire).row))
      BY <1>2 DEF Store
    <3> QED
      BY <1>0, <3>1 DEF Events
  <2>3. fresh' \subseteq Events' /\ pending' \subseteq Events'
    BY <1>0, <2>1, <2>2
  <2> QED
    BY <1>0, <2>1, <2>3, PodsStay
<1>3. CASE LosePull
  <2>1. UNCHANGED <<pod, store, acked, emitted, owners, torn>> /\ fresh # {}
        /\ fresh' = fresh \ {Min(fresh)} /\ pending' = pending \cup {Min(fresh)}
    BY <1>3 DEF LosePull, fleet, viewer
  <2>2. Min(fresh) \in Events
    BY <1>0, <2>1, MinFacts
  <2>3. fresh' \subseteq Events' /\ pending' \subseteq Events'
    BY <1>0, <2>1, <2>2
  <2> QED
    BY <1>0, <2>1, <2>3, PodsStay
<1>4. ASSUME NEW p \in Pods, StartPod(p) PROVE FleetInv'
  <2>1. UNCHANGED <<pod, store, acked, emitted, fresh, pending>>
    BY <1>4 DEF StartPod, broker, viewer
  <2>2. owners' \subseteq Pods /\ torn' \in BOOLEAN
    BY <1>0, <1>4 DEF StartPod
  <2> QED
    BY <1>0, <2>1, <2>2, PodsStay
<1>5. ASSUME NEW p \in Pods, EndPod(p) PROVE FleetInv'
  <2>1. UNCHANGED <<store, acked, emitted, fresh, pending>> /\ Set(p, Idle)
    BY <1>5 DEF EndPod, broker, viewer, Set
  <2>2. owners' \subseteq Pods /\ torn' \in BOOLEAN
    BY <1>0, <1>5 DEF EndPod
  <2>3. Idle \in PodState /\ Idle.pc = "idle" /\ \A v \in Vehicles : Idle.lane[v] = {}
    BY DEF Idle, PodState, Stages
  <2>4. fresh' \subseteq Events' /\ pending' \subseteq Events' /\ emitted' \subseteq Events' /\ acked' \subseteq acked
    BY <1>0, <2>1 DEF FleetInv, FleetTypes
  <2>5. \A v \in Vehicles : \A entries \in Idle.lane[v] : \A r \in entries :
               r \in recorded' /\ raw'[r].vehicle = v
    BY <2>3
  <2> HIDE DEF Idle
  <2> QED
    BY <2>1, <2>2, <2>3, <2>4, <2>5, TailsStay, PodStep
<1>6. ASSUME NEW p \in Pods, Pod(p) PROVE FleetInv'
  BY <1>6, TakeStep, WarmStep, ProcessStep, RecordStep, AckStep DEF Pod
<1> QED
  BY <1>1, <1>2, <1>3, <1>4, <1>5, <1>6 DEF Next, Producer

\* The invariants of the producer and of the fleet hold in every state.
LEMMA FleetAlways == Spec => [](ReplayInv /\ FleetInv)
<1>1. Init => ReplayInv /\ FleetInv
  BY ReplayInit, FleetInit
<1>2. ReplayInv /\ FleetInv /\ [Next]_vars => (ReplayInv /\ FleetInv)'
  BY ReplayStep, FleetStep
<1> QED
  BY <1>1, <1>2, PTL DEF Spec

\* Whatever pods start and end, and whichever acknowledgements, publishes and
\* deliveries are lost or repeated, an event is deleted from the work queue only
\* if it is recorded or the record has a later one of its vehicle.
THEOREM ResizeIsSafe == Spec => []ResizeLosesNothing
<1>1. ReplayInv /\ FleetInv => ResizeLosesNothing
  BY DEF FleetInv
<1> QED
  BY <1>1, FleetAlways, PTL

-----------------------------------------------------------------------------
(* The viewer's trace.                                                     *)

Above(T, t) == {u \in T : u >= t}
Newest(T) == {t \in T : Cardinality(Above(T, t)) <= Capacity}

\* Counting the layers from one on.
LEMMA AboveFacts ==
    ASSUME NEW T, T \subseteq Int, IsFiniteSet(T), NEW S, S \subseteq T, NEW t \in Int
    PROVE  /\ Cardinality(Above(T, t)) \in Nat /\ Cardinality(Above(S, t)) \in Nat
           /\ IsFiniteSet(S) /\ IsFiniteSet(Above(T, t)) /\ IsFiniteSet(Above(S, t))
           /\ Cardinality(Above(S, t)) <= Cardinality(Above(T, t))
           /\ \A u \in T : t \in T /\ t < u => Cardinality(Above(T, u)) < Cardinality(Above(T, t))
<1>1. Above(T, t) \in SUBSET T /\ Above(S, t) \in SUBSET Above(T, t) /\ S \in SUBSET T
  BY DEF Above
<1>2. IsFiniteSet(Above(T, t)) /\ IsFiniteSet(S)
  BY <1>1, FS_Subset
<1>3. IsFiniteSet(Above(S, t)) /\ Cardinality(Above(S, t)) <= Cardinality(Above(T, t))
  BY <1>1, <1>2, FS_Subset
<1>4. Cardinality(Above(T, t)) \in Nat /\ Cardinality(Above(S, t)) \in Nat
  BY <1>2, <1>3, FS_CardinalityType
<1>5. ASSUME NEW u \in T, t \in T, t < u
      PROVE  Cardinality(Above(T, u)) < Cardinality(Above(T, t))
  <2>1. Above(T, u) \in SUBSET Above(T, t) /\ t \in Above(T, t) /\ t \notin Above(T, u)
    <3>1. \A w \in T : w \in Int /\ (w >= u => w >= t)
      BY <1>5
    <3>2. t >= t /\ ~ (t >= u)
      BY <1>5
    <3> QED
      BY <1>5, <3>1, <3>2 DEF Above
  <2>2. /\ IsFiniteSet(Above(T, u)) /\ Cardinality(Above(T, u)) <= Cardinality(Above(T, t))
        /\ Cardinality(Above(T, u)) # Cardinality(Above(T, t))
    BY <1>2, <2>1, FS_Subset
  <2>3. Cardinality(Above(T, u)) \in Nat
    BY <2>2, FS_CardinalityType
  <2> QED
    BY <1>4, <2>2, <2>3
<1> QED
  BY <1>2, <1>3, <1>4, <1>5

\* What was trimmed before does not matter: the newest of the kept layers and
\* of some more are the newest of all of them.
LEMMA NewestOfKept ==
    ASSUME NEW T, T \subseteq Int, IsFiniteSet(T), NEW L, L \subseteq Int, IsFiniteSet(L)
    PROVE  Newest(Newest(T) \cup L) = Newest(T \cup L)
<1> DEFINE A == T \cup L
           K == Newest(T)
           B == K \cup L
<1>0. Capacity \in Nat
  BY ServiceAssumption
<1>1. A \subseteq Int /\ IsFiniteSet(A) /\ B \subseteq A /\ T \subseteq A /\ K \subseteq T
  BY FS_Union DEF Newest
<1> HIDE DEF A
<1>2. ASSUME NEW t \in Newest(A) PROVE t \in Newest(B)
  <2>1. t \in A /\ t \in Int /\ Cardinality(Above(A, t)) <= Capacity
    BY <1>1 DEF Newest
  <2>2. /\ Cardinality(Above(T, t)) <= Cardinality(Above(A, t))
        /\ Cardinality(Above(B, t)) <= Cardinality(Above(A, t))
        /\ Cardinality(Above(T, t)) \in Nat /\ Cardinality(Above(B, t)) \in Nat
        /\ Cardinality(Above(A, t)) \in Nat
    BY <1>1, <2>1, AboveFacts
  <2>3. Cardinality(Above(T, t)) <= Capacity /\ Cardinality(Above(B, t)) <= Capacity
    BY <1>0, <2>1, <2>2
  <2>4. t \in B
    BY <2>1, <2>3 DEF A, Newest
  <2> QED
    BY <2>3, <2>4 DEF Newest
<1>3. ASSUME NEW t \in Newest(B) PROVE t \in Newest(A)
  <2>1. t \in B /\ t \in A /\ t \in Int /\ Cardinality(Above(B, t)) <= Capacity
    BY <1>1, <1>3 DEF Newest
  <2> HIDE DEF B, K
  <2> DEFINE lost == {u \in A : u >= t /\ u \notin B}
             counts == {Cardinality(Above(T, u)) : u \in lost}
  <2>2. \A u \in lost : u \in T /\ u \in Int /\ u \notin K /\ u >= t /\ u \notin B /\ Cardinality(Above(T, u)) \in Nat
    <3>1. \A u \in lost : u \in T /\ u \in Int /\ u \notin K /\ u >= t /\ u \notin B
      BY <1>1 DEF A, B
    <3> QED
      BY <3>1, AboveFacts
  <2>3. lost = {}
    <3> SUFFICES ASSUME lost # {} PROVE FALSE
      OBVIOUS
    <3>1. counts \subseteq Nat /\ counts # {}
      BY <2>2
    <3>2. PICK u \in lost : \A w \in lost : Cardinality(Above(T, u)) <= Cardinality(Above(T, w))
      <4> HIDE DEF lost
      <4>1. PICK c \in counts : \A d \in counts : c <= d
        <5> HIDE DEF counts
        <5> QED
          BY <3>1, NatMin
      <4> QED
        BY <4>1
    <3>3. /\ u \in T /\ u \in Int /\ u \notin K /\ u >= t /\ u \notin B
          /\ Cardinality(Above(T, u)) \in Nat
      BY <2>2
    <3>4. Cardinality(Above(T, u)) > Capacity
      BY <1>0, <3>3 DEF K, Newest
    <3>5. \A w \in T : w > u => w \in B
      <4> SUFFICES ASSUME NEW w \in T, w > u, w \notin B PROVE FALSE
        OBVIOUS
      <4>1. w \in lost /\ w \in Int
        BY <1>1, <2>1, <3>3
      <4>2. Cardinality(Above(T, u)) <= Cardinality(Above(T, w)) /\ Cardinality(Above(T, w)) \in Nat
        BY <2>2, <3>2, <4>1
      <4>3. Cardinality(Above(T, w)) < Cardinality(Above(T, u))
        BY <3>3, AboveFacts
      <4> QED
        BY <3>3, <4>2, <4>3
    <3> DEFINE higher == Above(T, u) \ {u}
    <3>6. IsFiniteSet(Above(T, u)) /\ u \in Above(T, u)
      <4>1. u >= u
        BY <3>3
      <4>2. IsFiniteSet(Above(T, u))
        BY <3>3, AboveFacts
      <4> QED
        BY <3>3, <4>1, <4>2 DEF Above
    <3>7. /\ IsFiniteSet(higher) /\ Cardinality(higher) = Cardinality(Above(T, u)) - 1
          /\ Cardinality(higher) \in Nat
      BY <3>6, FS_RemoveElement, FS_CardinalityType
    <3>8. t < u
      BY <2>1, <3>3
    <3>9. \A w \in higher : w \in B /\ w > t
      <4>1. \A w \in higher : w \in T /\ w \in Int /\ w > u
        BY <3>3 DEF Above
      <4> QED
        BY <2>1, <3>3, <3>5, <3>8, <4>1
    <3>10. (higher \cup {t}) \in SUBSET Above(B, t) /\ t \notin higher
      <4>1. t >= t /\ ~ (t > t) /\ t \in B
        BY <2>1
      <4>2. \A w \in higher : w \in B /\ w >= t
        <5>1. \A w \in higher : w \in Int
          BY DEF Above
        <5> HIDE DEF higher
        <5> QED
          BY <2>1, <3>9, <5>1
      <4> HIDE DEF higher
      <4> QED
        BY <3>9, <4>1, <4>2 DEF Above
    <3> HIDE DEF higher, lost, counts
    <3>11. Cardinality(higher \cup {t}) = Cardinality(higher) + 1
      BY <3>7, <3>10, FS_AddElement
    <3>12. IsFiniteSet(Above(B, t)) /\ Cardinality(Above(B, t)) \in Nat
      BY <1>1, <2>1, AboveFacts
    <3>13. Cardinality(higher \cup {t}) <= Cardinality(Above(B, t))
      BY <3>10, <3>12, FS_Subset
    <3> QED
      BY <1>0, <2>1, <3>3, <3>4, <3>7, <3>11, <3>12, <3>13
  <2>4. Above(A, t) = Above(B, t)
    BY <1>1, <2>3 DEF Above
  <2> QED
    BY <2>1, <2>4 DEF Newest
<1> QED
  BY <1>2, <1>3 DEF A

Diff == [vehicle : Vehicles, revision : Nat, layers : SUBSET Int]
Times(v) == {layer[1] : layer \in got[v]}

ViewerTypes ==
    /\ subject \in Seq(Diff) /\ \A i \in DOMAIN subject : IsFiniteSet(subject[i].layers)
    /\ got \in [Vehicles -> SUBSET (Int \X Nat)] /\ \A v \in Vehicles : IsFiniteSet(Times(v))
    /\ DOMAIN trace = Vehicles
    /\ \A v \in Vehicles : \A t \in DOMAIN trace[v] : trace[v][t] \in Nat

\* A revision the viewer meets was emitted, for an event of the vehicle.
Genuine ==
    /\ \A i \in DOMAIN subject : /\ subject[i].revision \in emitted
                                 /\ Vehicle(subject[i].revision) = subject[i].vehicle
    /\ \A v \in Vehicles : \A layer \in got[v] : layer[2] \in emitted /\ Vehicle(layer[2]) = v

ViewerInv == ViewerTypes /\ Genuine /\ TraceKeepsTheNewest

\* The layers of a diff are finitely many, and timestamps.
LEMMA LayersFacts ==
    ASSUME ReplayInv, NEW X, X \subseteq Events
    PROVE  {Time(r) : r \in X} \subseteq Int /\ IsFiniteSet({Time(r) : r \in X})
<1>1. raw \in Seq(Event) /\ Events = 1 .. Len(raw) /\ Len(raw) \in Int /\ 1 \in Int
  BY DEF ReplayInv, ReplayTypes, Events
<1>2. \A r \in Events : Time(r) \in Int
  <2>1. \A r \in Events : raw[r] \in Event
    BY <1>1
  <2> QED
    BY <2>1 DEF Event, Time
<1>3. IsFiniteSet(Events)
  BY <1>1, FS_Interval
<1>4. IsFiniteSet(X)
  BY <1>3, FS_Subset
<1> DEFINE L == {Time(r) : r \in X}
           f == [r \in X |-> Time(r)]
<1>5. f \in Surjection(X, L)
  BY DEF Surjection
<1> HIDE DEF f
<1>6. IsFiniteSet(L)
  BY <1>4, <1>5, FS_Surjection
<1> QED
  BY <1>2, <1>6

\* The diff the viewer reads next, and the ones behind it.
LEMMA SubjectFacts ==
    ASSUME ViewerTypes, subject # <<>>
    PROVE  /\ Head(subject) = subject[1] /\ 1 \in DOMAIN subject /\ Head(subject) \in Diff
           /\ Tail(subject) \in Seq(Diff)
           /\ \A i \in DOMAIN Tail(subject) : i \in Nat /\ i + 1 \in DOMAIN subject
                                              /\ Tail(subject)[i] = subject[i + 1]
  BY DEF ViewerTypes

\* The viewer's own steps, the ones that emit, and all the others.
LEMMA OthersLeaveViewer ==
    ASSUME [Next]_vars
    PROVE  \/ UNCHANGED viewer
           \/ Ingest \/ LoseDiff \/ \E v \in Vehicles : evict_idle(v)
           \/ \E p \in Pods, again \in BOOLEAN : Emit(p, again)
  BY ZenonT(30) DEF Next, Producer, Viewer, Pod, Send, Await, Finish, Store, Refuse, LosePull, Pull, Redeliver, Warm,
         Drop, NoMatch, Record, Ack, StartPod, EndPod, viewer, vars

\* What was emitted stays emitted, with its vehicle.
LEMMA EmittedStays ==
    ASSUME ReplayInv, FleetInv, [Next]_vars
    PROVE  /\ emitted \subseteq emitted' /\ emitted \subseteq Events
           /\ \A e \in emitted : raw'[e] = raw[e]
<1>1. emitted \subseteq emitted'
  BY OthersLeaveViewer DEF viewer, Ingest, LoseDiff, evict_idle, Emit
<1> QED
  BY <1>1, RawGrows DEF FleetInv, FleetTypes

\* The invariant of the viewer holds initially.
LEMMA ViewerInit == Init => ViewerInv
<1> SUFFICES ASSUME Init PROVE ViewerInv
  OBVIOUS
<1>1. subject = <<>> /\ got = [v \in Vehicles |-> {}] /\ trace = [v \in Vehicles |-> <<>>]
  BY DEF Init
<1>2. \A v \in Vehicles : Times(v) = {} /\ trace[v] = <<>> /\ got[v] = {}
  BY <1>1 DEF Times
<1>3. \A t \in DOMAIN <<>> : FALSE
  OBVIOUS
<1>4. ViewerTypes
  BY <1>1, <1>2, <1>3, FS_EmptySet DEF ViewerTypes
<1>5. Genuine
  BY <1>1, <1>2 DEF Genuine
<1>6. TraceKeepsTheNewest
  BY <1>2, <1>3 DEF TraceKeepsTheNewest, Times
<1> QED
  BY <1>4, <1>5, <1>6 DEF ViewerInv

\* A solve is published: a diff of the vehicle, with finitely many layers.
LEMMA ViewerEmit ==
    ASSUME ReplayInv, FleetInv, ViewerInv, [Next]_vars, NEW p \in Pods, NEW again \in BOOLEAN, Emit(p, again)
    PROVE  /\ ViewerInv' /\ UNCHANGED <<trace, got, raw>>
           /\ \E d \in Diff : d.revision = pod[p].job /\ d.vehicle = Vehicle(pod[p].job)
                              /\ subject' = Append(subject, d)
<1> DEFINE s == pod[p].job
<1>1. /\ pod[p].pc = "process" /\ emitted' = emitted \cup {s} /\ UNCHANGED <<trace, got, raw>>
      /\ \E carried \in {{}, Lane(p)} :
            subject' = Append(subject, [vehicle |-> Vehicle(s), revision |-> s,
                                        layers |-> {Time(r) : r \in carried \cup {s}}])
  BY DEF Emit, At, broker
<1>2. s \in Events /\ Vehicle(s) \in Vehicles /\ Events \subseteq Nat
      /\ \A r \in Lane(p) : r \in Events
  BY <1>1, PodFacts, RawGrows DEF Lane
<1>3. PICK carried \in {{}, Lane(p)} :
            subject' = Append(subject, [vehicle |-> Vehicle(s), revision |-> s,
                                        layers |-> {Time(r) : r \in carried \cup {s}}])
  BY <1>1
<1> DEFINE d == [vehicle |-> Vehicle(s), revision |-> s, layers |-> {Time(r) : r \in carried \cup {s}}]
<1>4. (carried \cup {s}) \subseteq Events
  BY <1>2
<1>5. d.layers \subseteq Int /\ IsFiniteSet(d.layers)
  BY <1>4, LayersFacts
<1>6. d \in Diff /\ d.revision = s /\ d.vehicle = Vehicle(s) /\ subject' = Append(subject, d)
  BY <1>2, <1>3, <1>5 DEF Diff
<1> HIDE DEF d, s
<1>7. subject' \in Seq(Diff) /\ \A i \in DOMAIN subject' :
          subject'[i] = d \/ (i \in DOMAIN subject /\ subject'[i] = subject[i])
  <2>1. subject \in Seq(Diff)
    BY DEF ViewerInv, ViewerTypes
  <2> QED
    BY <1>6, <2>1
<1>8. ViewerTypes'
  BY <1>1, <1>5, <1>7 DEF ViewerInv, ViewerTypes, Times
<1>9. Genuine'
  <2>1. /\ \A i \in DOMAIN subject' : /\ subject'[i].revision \in emitted'
                                      /\ raw[subject'[i].revision].vehicle = subject'[i].vehicle
    BY <1>1, <1>6, <1>7 DEF ViewerInv, Genuine, Vehicle
  <2>2. \A v \in Vehicles : \A layer \in got[v] : layer[2] \in emitted' /\ raw[layer[2]].vehicle = v
    BY <1>1 DEF ViewerInv, Genuine, Vehicle
  <2> QED
    BY <1>1, <2>1, <2>2 DEF Genuine, Vehicle
<1>10. TraceKeepsTheNewest'
  BY <1>1 DEF ViewerInv, TraceKeepsTheNewest
<1> QED
  BY <1>1, <1>6, <1>8, <1>9, <1>10 DEF ViewerInv, s

\* What merge leaves of the layers shown and the ones that arrive.
LEMMA MergeFacts ==
    ASSUME NEW layers, NEW d
    PROVE  /\ DOMAIN merge(layers, d) = Newest(DOMAIN layers \cup d.layers)
           /\ \A t \in DOMAIN merge(layers, d) :
                 /\ t \in d.layers => merge(layers, d)[t] = d.revision
                 /\ t \notin d.layers => merge(layers, d)[t] = layers[t]
           /\ \A t \in DOMAIN merge(layers, d) : t \in d.layers \/ t \in DOMAIN layers
  BY DEF merge, Trim, Newest, Above

\* A diff is merged.
LEMMA ViewerIngest ==
    ASSUME ReplayInv, FleetInv, ViewerInv, [Next]_vars, Ingest
    PROVE  ViewerInv'
<1>0. subject # <<>> /\ Head(subject) \in Diff
  BY SubjectFacts DEF Ingest, ViewerInv
<1>1. PICK d \in Diff : d = Head(subject)
  BY <1>0
<1>2. PICK w \in Vehicles : w = d.vehicle
  BY DEF Diff
<1>3. /\ subject' = Tail(subject) /\ UNCHANGED <<emitted, raw>>
      /\ trace' = [trace EXCEPT ![w] = merge(@, d)]
      /\ got' = [got EXCEPT ![w] = @ \cup (d.layers \X {d.revision})]
  BY <1>1, <1>2 DEF Ingest, broker
<1>4. /\ d = subject[1] /\ 1 \in DOMAIN subject /\ Tail(subject) \in Seq(Diff)
      /\ \A i \in DOMAIN Tail(subject) : i + 1 \in DOMAIN subject /\ Tail(subject)[i] = subject[i + 1]
  BY <1>0, <1>1, SubjectFacts DEF ViewerInv
<1>5. /\ d.layers \subseteq Int /\ d.revision \in Nat /\ IsFiniteSet(d.layers)
      /\ d.revision \in emitted /\ Vehicle(d.revision) = w
  BY <1>2, <1>4 DEF Diff, ViewerInv, ViewerTypes, Genuine
<1>6. /\ got \in [Vehicles -> SUBSET (Int \X Nat)] /\ DOMAIN trace = Vehicles
      /\ \A v \in Vehicles : IsFiniteSet(Times(v))
      /\ \A v \in Vehicles : \A t \in DOMAIN trace[v] : trace[v][t] \in Nat
  BY DEF ViewerInv, ViewerTypes
<1> DEFINE added == d.layers \X {d.revision}
<1>7. /\ added \subseteq Int \X Nat
      /\ \A layer \in added : layer[1] \in d.layers /\ layer[2] = d.revision
      /\ \A t \in d.layers : \E layer \in added : layer[1] = t
  <2>1. \A t \in d.layers : <<t, d.revision>> \in added /\ <<t, d.revision>>[1] = t
    OBVIOUS
  <2> QED
    BY <1>5, <2>1
<1>8. got' = [got EXCEPT ![w] = @ \cup added]
  BY <1>3
<1> HIDE DEF added
<1>9. /\ got' \in [Vehicles -> SUBSET (Int \X Nat)] /\ DOMAIN trace' = Vehicles
      /\ got'[w] = got[w] \cup added /\ trace'[w] = merge(trace[w], d)
      /\ \A v \in Vehicles : v # w => got'[v] = got[v] /\ trace'[v] = trace[v]
  BY <1>3, <1>6, <1>7, <1>8
<1>10. Times(w)' = Times(w) \cup d.layers
  <2>1. \A t \in Times(w)' : t \in Times(w) \cup d.layers
    BY <1>7, <1>9 DEF Times
  <2>2. \A t \in Times(w) \cup d.layers : t \in Times(w)'
    BY <1>7, <1>9 DEF Times
  <2> QED
    BY <2>1, <2>2
<1>11. \A v \in Vehicles : v # w => Times(v)' = Times(v)
  BY <1>9 DEF Times
<1>12. \A v \in Vehicles : Times(v) \subseteq Int
  BY <1>6 DEF Times
<1>13. DOMAIN trace[w] = Newest(Times(w))
  BY DEF ViewerInv, TraceKeepsTheNewest, Times, Newest, Above
<1>14. DOMAIN trace'[w] = Newest(Times(w)')
  <2>1. DOMAIN trace'[w] = Newest(Newest(Times(w)) \cup d.layers)
    BY <1>9, <1>13, MergeFacts
  <2> QED
    BY <1>5, <1>6, <1>10, <1>12, <2>1, NewestOfKept
<1>15. ViewerTypes'
  <2>1. subject' \in Seq(Diff) /\ \A i \in DOMAIN subject' : IsFiniteSet(subject'[i].layers)
    BY <1>3, <1>4 DEF ViewerInv, ViewerTypes
  <2>2. \A v \in Vehicles : IsFiniteSet(Times(v)')
    <3>1. IsFiniteSet(Times(w) \cup d.layers)
      BY <1>5, <1>6, FS_Union
    <3> SUFFICES ASSUME NEW v \in Vehicles PROVE IsFiniteSet(Times(v)')
      OBVIOUS
    <3>2. CASE v = w
      BY <1>10, <3>1, <3>2
    <3>3. CASE v # w
      BY <1>6, <1>11, <3>3
    <3> QED
      BY <3>2, <3>3
  <2>3. ASSUME NEW v \in Vehicles, NEW t \in DOMAIN trace'[v] PROVE trace'[v][t] \in Nat
    <3>1. CASE v = w
      <4>1. t \in DOMAIN merge(trace[w], d) /\ trace'[v][t] = merge(trace[w], d)[t]
        BY <1>9, <3>1
      <4>2. /\ t \in d.layers => merge(trace[w], d)[t] = d.revision
            /\ t \notin d.layers => merge(trace[w], d)[t] = trace[w][t]
        BY ZenonT(30), <4>1, MergeFacts
      <4>3. t \in d.layers \/ t \in DOMAIN trace[w]
        BY <4>1, MergeFacts
      <4> QED
        BY <1>5, <1>6, <4>1, <4>2, <4>3
    <3>2. CASE v # w
      BY <1>6, <1>9, <3>2
    <3> QED
      BY <3>1, <3>2
  <2> QED
    BY <1>9, <2>1, <2>2, <2>3 DEF ViewerTypes
<1>16. Genuine'
  <2>1. \A i \in DOMAIN subject' : /\ subject'[i].revision \in emitted
                                   /\ Vehicle(subject'[i].revision) = subject'[i].vehicle
    BY <1>3, <1>4 DEF ViewerInv, Genuine
  <2>2. ASSUME NEW v \in Vehicles, NEW layer \in got'[v]
        PROVE  layer[2] \in emitted /\ Vehicle(layer[2]) = v
    BY <1>5, <1>7, <1>9 DEF ViewerInv, Genuine
  <2> QED
    BY <1>3, <2>1, <2>2 DEF Genuine, Vehicle
<1>17. TraceKeepsTheNewest'
  <2>1. \A v \in Vehicles : v # w => DOMAIN trace'[v] = Newest(Times(v)')
    <3>1. \A v \in Vehicles : DOMAIN trace[v] = Newest(Times(v))
      BY DEF ViewerInv, TraceKeepsTheNewest, Times, Newest, Above
    <3> QED
      BY <1>9, <1>11, <3>1
  <2>2. \A v \in Vehicles : DOMAIN trace'[v] = Newest(Times(v)')
    BY <1>14, <2>1
  <2> QED
    BY <2>2 DEF TraceKeepsTheNewest, Times, Newest, Above
<1> QED
  BY <1>15, <1>16, <1>17 DEF ViewerInv

\* A diff the viewer never sees.
LEMMA ViewerLoses ==
    ASSUME ReplayInv, FleetInv, ViewerInv, [Next]_vars, LoseDiff
    PROVE  ViewerInv'
<1>1. /\ subject # <<>> /\ subject' = Tail(subject) /\ UNCHANGED <<emitted, raw, trace, got>>
  BY DEF LoseDiff, broker
<1>2. Tail(subject) \in Seq(Diff)
      /\ \A i \in DOMAIN Tail(subject) : i + 1 \in DOMAIN subject /\ Tail(subject)[i] = subject[i + 1]
  BY <1>1, SubjectFacts DEF ViewerInv
<1>3. ViewerTypes' /\ Genuine'
  BY <1>1, <1>2 DEF ViewerInv, ViewerTypes, Times, Genuine, Vehicle
<1>4. TraceKeepsTheNewest'
  BY <1>1 DEF ViewerInv, TraceKeepsTheNewest
<1> QED
  BY <1>3, <1>4 DEF ViewerInv

\* An idle vehicle's trace is evicted, and starts again from nothing.
LEMMA ViewerEvicts ==
    ASSUME ReplayInv, FleetInv, ViewerInv, [Next]_vars, NEW w \in Vehicles, evict_idle(w)
    PROVE  ViewerInv'
<1>1. /\ trace' = [trace EXCEPT ![w] = <<>>] /\ got' = [got EXCEPT ![w] = {}]
      /\ UNCHANGED <<emitted, raw, subject>>
  BY DEF evict_idle, broker
<1>2. /\ got \in [Vehicles -> SUBSET (Int \X Nat)] /\ DOMAIN trace = Vehicles
      /\ \A v \in Vehicles : IsFiniteSet(Times(v))
      /\ \A v \in Vehicles : \A t \in DOMAIN trace[v] : trace[v][t] \in Nat
  BY DEF ViewerInv, ViewerTypes
<1>3. /\ got' \in [Vehicles -> SUBSET (Int \X Nat)] /\ DOMAIN trace' = Vehicles
      /\ got'[w] = {} /\ trace'[w] = <<>>
      /\ \A v \in Vehicles : v # w => got'[v] = got[v] /\ trace'[v] = trace[v]
  BY <1>1, <1>2
<1>4. Times(w)' = {} /\ (\A t \in DOMAIN trace'[w] : FALSE)
      /\ \A v \in Vehicles : v # w => Times(v)' = Times(v)
  BY <1>3 DEF Times
<1>5. ViewerTypes'
  <2>1. \A v \in Vehicles : IsFiniteSet(Times(v)')
    <3>1. IsFiniteSet(Times(w)')
      BY <1>4, FS_EmptySet
    <3> QED
      BY <1>2, <1>4, <3>1
  <2>2. \A v \in Vehicles : \A t \in DOMAIN trace'[v] : trace'[v][t] \in Nat
    BY <1>2, <1>3, <1>4
  <2> QED
    BY <1>1, <1>3, <2>1, <2>2 DEF ViewerInv, ViewerTypes
<1>6. Genuine'
  BY <1>1, <1>3 DEF ViewerInv, Genuine, Vehicle
<1>7. TraceKeepsTheNewest'
  <2>1. \A v \in Vehicles : v # w => DOMAIN trace'[v] = Newest(Times(v)')
    <3>1. \A v \in Vehicles : DOMAIN trace[v] = Newest(Times(v))
      BY DEF ViewerInv, TraceKeepsTheNewest, Times, Newest, Above
    <3> QED
      BY <1>3, <1>4, <3>1
  <2>2. DOMAIN trace'[w] = Newest(Times(w)')
    BY <1>4 DEF Newest
  <2>3. \A v \in Vehicles : DOMAIN trace'[v] = Newest(Times(v)')
    BY <2>1, <2>2
  <2> QED
    BY <2>3 DEF TraceKeepsTheNewest, Times, Newest, Above
<1> QED
  BY <1>5, <1>6, <1>7 DEF ViewerInv

\* Every step keeps the viewer's invariant.
LEMMA ViewerStep == ReplayInv /\ FleetInv /\ ViewerInv /\ [Next]_vars => ViewerInv'
<1> SUFFICES ASSUME ReplayInv, FleetInv, ViewerInv, [Next]_vars PROVE ViewerInv'
  OBVIOUS
<1>1. CASE UNCHANGED viewer
  <2>1. UNCHANGED <<emitted, subject, trace, got>>
    BY <1>1 DEF viewer
  <2>2. \A e \in emitted : raw'[e] = raw[e]
    BY EmittedStays
  <2>3. ViewerTypes' /\ TraceKeepsTheNewest'
    BY <2>1 DEF ViewerInv, ViewerTypes, Times, TraceKeepsTheNewest
  <2>4. Genuine'
    BY <2>1, <2>2 DEF ViewerInv, Genuine, Vehicle
  <2> QED
    BY <2>3, <2>4 DEF ViewerInv
<1> QED
  BY <1>1, OthersLeaveViewer, ViewerEmit, ViewerIngest, ViewerLoses, ViewerEvicts

\* The invariants of producer, fleet and viewer hold in every state.
LEMMA ViewerAlways == Spec => [](ReplayInv /\ FleetInv /\ ViewerInv)
<1>1. ReplayInv /\ FleetInv /\ ViewerInv /\ [Next]_vars => (ReplayInv /\ FleetInv /\ ViewerInv)'
  BY ReplayStep, FleetStep, ViewerStep
<1> QED
  BY <1>1, ReplayInit, FleetInit, ViewerInit, PTL DEF Spec

\* A trace has the newest layers that reached it, whatever was trimmed before
\* and emitted again (TraceStore of the viewer).
THEOREM TraceIsTheNewest == Spec => []TraceKeepsTheNewest
<1>1. ReplayInv /\ FleetInv /\ ViewerInv => TraceKeepsTheNewest
  BY DEF ViewerInv
<1> QED
  BY <1>1, ViewerAlways, PTL

-----------------------------------------------------------------------------
(* Which solve the trace shows.                                            *)

Orderly == ~ torn /\ InOrder

SingleOwner == \A p, q \in owners : p = q
OthersIdle == \A p \in Pods \ owners : pod[p] = Idle

\* A pod that is about to record, or has emitted and not recorded, has seen
\* nothing of its vehicle as late as its event.
Decided ==
    \A p \in owners :
        (pod[p].pc = "archive" \/ (pod[p].pc = "process" /\ pod[p].job \in emitted \ recorded))
            => Warmed(p) /\ ~ Stale(p)

EmittedIsRecorded ==
    \A e \in emitted \ recorded : \E p \in owners : pod[p].pc \in {"process", "archive"} /\ pod[p].job = e

TailEndsHighest ==
    \A r \in recorded : LET t == tail[Vehicle(r)] IN t # <<>> /\ r <= t[Len(t)]

LaneHasHighest ==
    \A p \in owners, v \in Vehicles : pod[p].lane[v] # {} =>
        \A r \in recorded : Vehicle(r) = v => \E l \in UNION pod[p].lane[v] : r <= l

\* Under one orderly owner at a time, a vehicle's record only grows upwards.
PodsInv ==
    /\ OthersIdle
    /\ Orderly => SingleOwner /\ Decided /\ EmittedIsRecorded /\ TailEndsHighest /\ LaneHasHighest

\* What is torn stays torn, and what is out of order stays so.
LEMMA OrderlyBefore ==
    ASSUME ReplayInv, FleetInv, [Next]_vars, Orderly'
    PROVE  Orderly
<1>1. torn => torn'
  BY DEF Next, Producer, Viewer, Pod, Send, Await, Finish, Store, Refuse, LosePull, Pull, Redeliver, Warm,
         Drop, NoMatch, Emit, Record, Ack, StartPod, EndPod, Ingest, LoseDiff, evict_idle, fleet, vars
<1>2. InOrder' => InOrder
  BY RawGrows DEF InOrder, Vehicle, Time, Events
<1> QED
  BY <1>1, <1>2 DEF Orderly

\* The invariant of the pods holds initially.
LEMMA PodsInit == Init => PodsInv
<1> SUFFICES ASSUME Init PROVE PodsInv
  OBVIOUS
<1>1. PICK o \in Pods : owners = {o}
  BY DEF Init
<1>2. /\ pod = [p \in Pods |-> Idle] /\ emitted = {} /\ recorded = {} /\ Idle.pc = "idle"
  BY DEF Init, Idle
<1> HIDE DEF Idle
<1>3. OthersIdle /\ SingleOwner /\ Decided
  BY <1>1, <1>2 DEF OthersIdle, SingleOwner, Decided
<1>4. EmittedIsRecorded /\ TailEndsHighest /\ LaneHasHighest
  BY <1>2 DEF EmittedIsRecorded, TailEndsHighest, LaneHasHighest
<1> QED
  BY <1>3, <1>4 DEF PodsInv

\* The step of a pod that owns the partition alone: only its own state counts.
LEMMA OwnStep ==
    ASSUME ReplayInv, FleetInv, PodsInv, [Next]_vars, UNCHANGED <<raw, owners>>,
           NEW p \in owners, NEW x \in PodState, Set(p, x),
           Orderly =>
               /\ (x.pc = "archive" \/ (x.pc = "process" /\ x.job \in emitted' \ recorded')) =>
                      /\ x.lane[Vehicle(x.job)] # {}
                      /\ \A r \in UNION x.lane[Vehicle(x.job)] : ~ (Time(x.job) <= Time(r))
               /\ \A e \in emitted' \ recorded' : x.pc \in {"process", "archive"} /\ x.job = e
               /\ TailEndsHighest'
               /\ \A v \in Vehicles : x.lane[v] # {} =>
                      \A r \in recorded' : Vehicle(r) = v => \E l \in UNION x.lane[v] : r <= l
    PROVE  PodsInv'
<1>1. owners \subseteq Pods /\ pod \in [Pods -> PodState]
  BY DEF FleetInv, FleetTypes
<1>2. pod'[p] = x /\ \A q \in Pods : q # p => pod'[q] = pod[q]
  BY <1>1, SetFacts
<1>3. OthersIdle'
  BY <1>2 DEF PodsInv, OthersIdle, Idle
<1>4. ASSUME Orderly'
      PROVE  SingleOwner' /\ Decided' /\ EmittedIsRecorded' /\ TailEndsHighest' /\ LaneHasHighest'
  <2>1. Orderly /\ \A q \in owners : q = p
    BY <1>4, OrderlyBefore DEF PodsInv, SingleOwner
  <2>2. \A q \in owners' : q = p /\ pod'[q] = x
    BY <1>2, <2>1
  <2>3. SingleOwner' /\ TailEndsHighest'
    BY <2>1, <2>2 DEF SingleOwner
  <2>4. Decided'
    <3>1. /\ Vehicle(x.job) = raw'[x.job].vehicle
          /\ \A r : Time(r) = raw'[r].timestamp
      BY DEF Vehicle, Time
    <3> SUFFICES ASSUME NEW q \in owners',
                        x.pc = "archive" \/ (x.pc = "process" /\ x.job \in emitted' \ recorded')
                 PROVE  /\ pod'[q].lane[raw'[pod'[q].job].vehicle] # {}
                        /\ \A r \in UNION pod'[q].lane[raw'[pod'[q].job].vehicle] :
                              ~ (raw'[pod'[q].job].timestamp <= raw'[r].timestamp)
      BY <2>2 DEF Decided, Warmed, Stale, Lane, Vehicle, Time
    <3>2. pod'[q] = x
      BY <2>2
    <3>3. /\ x.lane[Vehicle(x.job)] # {}
          /\ \A r \in UNION x.lane[Vehicle(x.job)] : ~ (Time(x.job) <= Time(r))
      BY <2>1
    <3> QED
      BY <3>1, <3>2, <3>3
  <2>5. EmittedIsRecorded'
    BY <1>2, <2>1 DEF EmittedIsRecorded
  <2>6. LaneHasHighest'
    BY <2>1, <2>2 DEF LaneHasHighest, Vehicle
  <2> QED
    BY <2>3, <2>4, <2>5, <2>6
<1> QED
  BY <1>3, <1>4 DEF PodsInv

\* A pod moves on and its lanes and the record stay as they are.
LEMMA OwnStage ==
    ASSUME ReplayInv, FleetInv, PodsInv, [Next]_vars, UNCHANGED <<raw, owners, store>>,
           NEW p \in owners, NEW pc \in Stages, NEW job \in Nat,
           Set(p, [pod[p] EXCEPT !.job = job, !.pc = pc]),
           Orderly =>
               /\ (pc = "archive" \/ (pc = "process" /\ job \in emitted' \ recorded)) =>
                      /\ pod[p].lane[Vehicle(job)] # {}
                      /\ \A r \in UNION pod[p].lane[Vehicle(job)] : ~ (Time(job) <= Time(r))
               /\ \A e \in emitted' \ recorded : pc \in {"process", "archive"} /\ job = e
    PROVE  PodsInv'
<1> DEFINE x == [pod[p] EXCEPT !.job = job, !.pc = pc]
<1>1. p \in Pods
  BY DEF FleetInv, FleetTypes
<1>2. pod[p] \in PodState
  BY <1>1, PodFacts
<1>3. x \in PodState /\ x.pc = pc /\ x.job = job /\ x.lane = pod[p].lane
  BY <1>2 DEF PodState
<1>4. Set(p, x)
  OBVIOUS
<1> HIDE DEF x
<1>5. Orderly => TailEndsHighest'
  BY DEF PodsInv, TailEndsHighest, store, Vehicle
<1>6. Orderly => \A v \in Vehicles : x.lane[v] # {} =>
                    \A r \in recorded' : Vehicle(r) = v => \E l \in UNION x.lane[v] : r <= l
  BY <1>3 DEF PodsInv, LaneHasHighest, store
<1>7. recorded' = recorded
  BY DEF store
<1> QED
  BY <1>3, <1>4, <1>5, <1>6, <1>7, OwnStep

\* Of an orderly owner that is neither processing nor recording, nothing is
\* emitted and not recorded; of one that is, its own event at most.
LEMMA OwnEmissions ==
    ASSUME PodsInv, Orderly, NEW p \in owners
    PROVE  /\ \A e \in emitted \ recorded : pod[p].pc \in {"process", "archive"} /\ pod[p].job = e
           /\ \A q \in owners : q = p
  BY DEF PodsInv, SingleOwner, EmittedIsRecorded

\* The steps of a pod that move it on.
LEMMA OwnMoves ==
    ASSUME ReplayInv, FleetInv, PodsInv, [Next]_vars, NEW p \in Pods,
           \/ Pull(p) \/ Redeliver(p) \/ Drop(p) \/ NoMatch(p)
           \/ \E b \in BOOLEAN : Emit(p, b) \/ Ack(p, b)
    PROVE  PodsInv'
<1>1. p \in owners /\ UNCHANGED <<raw, owners, store>>
  BY DEF Pull, Redeliver, Drop, NoMatch, Emit, Ack, At, broker, fleet
<1>2. /\ pod[p] \in PodState /\ pod[p].job \in Nat /\ Stages = {"idle", "process", "archive", "ack"}
  BY PodFacts DEF PodState, Stages
<1>3. CASE Pull(p) \/ Redeliver(p)
  <2>1. PICK s \in Nat : Set(p, [pod[p] EXCEPT !.job = s, !.pc = "process"])
    <3>1. fresh \subseteq Nat /\ pending \subseteq Nat
      BY RawGrows DEF FleetInv, FleetTypes
    <3>2. CASE Pull(p)
      <4>1. Min(fresh) \in Nat
        BY <3>1, <3>2, MinFacts DEF Pull
      <4> QED
        BY <3>2, <4>1 DEF Pull
    <3>3. CASE Redeliver(p)
      BY <3>1, <3>3 DEF Redeliver
    <3> QED
      BY <1>3, <3>2, <3>3
  <2>2. pod[p].pc = "idle" /\ emitted' = emitted
    BY <1>3 DEF Pull, Redeliver, At, viewer
  <2>3. Orderly => emitted' \ recorded = {}
    BY <1>1, <2>2, OwnEmissions
  <2> QED
    BY <1>1, <1>2, <2>1, <2>3, OwnStage
<1>4. CASE Drop(p)
  <2>1. /\ pod[p].pc = "process" /\ Stale(p) /\ emitted' = emitted
        /\ Set(p, [pod[p] EXCEPT !.pc = "ack"])
    BY <1>4 DEF Drop, At, viewer
  <2>2. Set(p, [pod[p] EXCEPT !.job = pod[p].job, !.pc = "ack"])
    BY <2>1, SamePc
  <2>3. Orderly => emitted' \ recorded = {}
    BY <1>1, <2>1, OwnEmissions DEF PodsInv, Decided
  <2> QED
    BY <1>1, <1>2, <2>2, <2>3, OwnStage
<1>5. CASE NoMatch(p) \/ \E b \in BOOLEAN : Emit(p, b)
  <2>1. /\ pod[p].pc = "process" /\ Warmed(p) /\ ~ Stale(p) /\ emitted' \subseteq emitted \cup {pod[p].job}
        /\ \E pc \in {"process", "archive"} : Set(p, [pod[p] EXCEPT !.pc = pc])
    BY <1>5 DEF NoMatch, Emit, At, viewer
  <2>2. PICK pc \in {"process", "archive"} : Set(p, [pod[p] EXCEPT !.pc = pc])
    BY <2>1
  <2>3. Set(p, [pod[p] EXCEPT !.job = pod[p].job, !.pc = pc])
    BY <2>2, SamePc
  <2>4. /\ pod[p].lane[Vehicle(pod[p].job)] # {}
        /\ \A r \in UNION pod[p].lane[Vehicle(pod[p].job)] : ~ (Time(pod[p].job) <= Time(r))
    BY <2>1 DEF Warmed, Stale, Lane
  <2>5. Orderly => \A e \in emitted' \ recorded : pod[p].job = e
    BY <1>1, <2>1, OwnEmissions
  <2> QED
    BY <1>1, <1>2, <2>3, <2>4, <2>5, OwnStage
<1>6. ASSUME NEW b \in BOOLEAN, Ack(p, b) PROVE PodsInv'
  <2>1. /\ pod[p].pc = "ack" /\ emitted' = emitted
        /\ Set(p, [pod[p] EXCEPT !.job = 0, !.pc = "idle"])
    BY <1>6 DEF Ack, At, viewer
  <2>2. Orderly => emitted' \ recorded = {}
    BY <1>1, <2>1, OwnEmissions
  <2> QED
    BY <1>1, <1>2, <2>1, <2>2, OwnStage
<1> QED
  BY <1>3, <1>4, <1>5, <1>6

\* The warmed lane has the last entry of the tail, which is the highest.
LEMMA OwnWarm ==
    ASSUME ReplayInv, FleetInv, PodsInv, [Next]_vars, NEW p \in Pods, Warm(p)
    PROVE  PodsInv'
<1>1. /\ p \in owners /\ UNCHANGED <<raw, owners, tail, recorded, emitted>> /\ pod[p].pc = "process"
      /\ pod[p].lane[Vehicle(pod[p].job)] = {} /\ ~ Warmed(p)
      /\ Set(p, [pod[p] EXCEPT !.lane[Vehicle(pod[p].job)] =
                   {ToSet(LastN(tail[Vehicle(pod[p].job)], WarmLimit))}])
  BY DEF Warm, At, broker, fleet, store, viewer, Warmed
<1>2. /\ pod[p] \in PodState /\ Vehicle(pod[p].job) \in Vehicles /\ pod[p].job \in Events
  BY <1>1, PodFacts
<1>3. PICK w \in Vehicles : w = Vehicle(pod[p].job)
  BY <1>2
<1> DEFINE entries == ToSet(LastN(tail[w], WarmLimit))
           lane == {entries}
           x == [pod[p] EXCEPT !.lane[w] = lane]
<1>4. tail[w] \in Seq(Nat) /\ WarmLimit \in Nat \ {0}
  BY ServiceAssumption DEF FleetInv, FleetTypes
<1>5. LastN(tail[w], WarmLimit) \in Seq(Nat)
      /\ (tail[w] # <<>> => tail[w][Len(tail[w])] \in entries)
  BY <1>4, LastNEntries
<1>6. entries \in SUBSET Nat
  BY <1>5 DEF ToSet
<1> HIDE DEF entries
<1>7. x \in PodState /\ x.pc = "process" /\ x.job = pod[p].job
      /\ \A v \in Vehicles : x.lane[v] = IF v = w THEN {entries} ELSE pod[p].lane[v]
  BY <1>1, <1>2, <1>6 DEF PodState
<1>8. Set(p, x)
  BY <1>1, <1>3 DEF entries
<1> HIDE DEF x
<1>9. ASSUME Orderly PROVE pod[p].job \notin emitted \ recorded
  BY <1>1, <1>9 DEF PodsInv, Decided
<1>10. ASSUME Orderly, NEW v \in Vehicles, x.lane[v] # {}, NEW r \in recorded, Vehicle(r) = v
       PROVE  \E l \in UNION x.lane[v] : r <= l
  <2>1. CASE v = w
    <3>1. tail[w] # <<>> /\ r <= tail[w][Len(tail[w])]
      BY <1>10, <2>1 DEF PodsInv, TailEndsHighest
    <3> QED
      BY <1>5, <1>7, <2>1, <3>1
  <2>2. CASE v # w
    BY <1>1, <1>7, <1>10, <2>2 DEF PodsInv, LaneHasHighest
  <2> QED
    BY <2>1, <2>2
<1>11. Orderly => TailEndsHighest'
  BY <1>1 DEF PodsInv, TailEndsHighest, Vehicle
<1>12. Orderly => \A e \in emitted \ recorded : FALSE
  BY <1>1, <1>9, OwnEmissions
<1> QED
  BY <1>1, <1>7, <1>8, <1>10, <1>11, <1>12, OwnStep

\* An event with nothing as late in a lane that has the highest is above all of
\* its vehicle that is recorded.
LEMMA AboveRecorded ==
    ASSUME ReplayInv, FleetInv, PodsInv, Orderly, NEW p \in owners, pod[p].pc # "idle",
           Warmed(p), ~ Stale(p), NEW r \in recorded, Vehicle(r) = Vehicle(pod[p].job)
    PROVE  r < pod[p].job
<1> DEFINE s == pod[p].job
<1>1. p \in Pods /\ recorded \subseteq Events
  BY DEF FleetInv, FleetTypes
<1>2. /\ s \in Events /\ Vehicle(s) \in Vehicles /\ Time(s) \in Int /\ raw \in Seq(Event)
      /\ \A l \in Lane(p) : l \in Events /\ Vehicle(l) = Vehicle(s)
  BY <1>1, PodFacts DEF Lane, Vehicle
<1>3. PICK l \in Lane(p) : r <= l
  BY <1>2 DEF PodsInv, LaneHasHighest, Warmed, Lane
<1>4. ~ (Time(s) <= Time(l))
  BY <1>3 DEF Stale
<1>5. l \in Int /\ s \in Int /\ r \in Int /\ Time(l) \in Int
  <2>1. \A e \in Events : e \in Int /\ raw[e] \in Event
    BY <1>2 DEF Events
  <2> QED
    BY <1>1, <1>2, <1>3, <2>1 DEF Event, Time
<1>6. ~ (s < l)
  BY <1>2, <1>3, <1>4, <1>5 DEF Orderly, InOrder, Events
<1>7. s # l
  BY <1>4, <1>5
<1> QED
  BY <1>3, <1>5, <1>6, <1>7

\* The tail grows upwards.
LEMMA OwnRecord ==
    ASSUME ReplayInv, FleetInv, PodsInv, [Next]_vars, NEW p \in Pods, Record(p)
    PROVE  PodsInv'
<1>1. /\ p \in owners /\ UNCHANGED <<raw, owners, emitted>> /\ pod[p].pc = "archive"
      /\ LET s == pod[p].job
         IN  /\ tail' = [tail EXCEPT ![Vehicle(s)] = Append(@, s)]
             /\ recorded' = recorded \cup {s}
             /\ Set(p, [pod[p] EXCEPT !.pc = "ack", !.lane[Vehicle(s)] = {Lane(p) \cup {s}}])
  BY DEF Record, At, broker, fleet, viewer
<1>2. /\ pod[p] \in PodState /\ pod[p].job \in Events /\ Vehicle(pod[p].job) \in Vehicles
      /\ \A l \in Lane(p) : l \in Events
  BY <1>1, PodFacts DEF Lane
<1>3. PICK s \in Events : s = pod[p].job
  BY <1>2
<1>4. PICK w \in Vehicles : w = Vehicle(s)
  BY <1>2, <1>3
<1> DEFINE lane == {Lane(p) \cup {s}}
           x == [pod[p] EXCEPT !.pc = "ack", !.lane[w] = lane]
<1>5. Events \subseteq Nat /\ tail \in [Vehicles -> Seq(Nat)] /\ recorded \subseteq Events
  BY RawGrows DEF FleetInv, FleetTypes
<1>6. lane \in SUBSET (SUBSET Nat) /\ s \in UNION lane /\ Lane(p) \subseteq UNION lane
  BY <1>2, <1>5
<1>7. Set(p, x) /\ tail' = [tail EXCEPT ![w] = Append(@, s)] /\ recorded' = recorded \cup {s}
  BY <1>1, <1>3, <1>4
<1> HIDE DEF lane
<1>8. x \in PodState /\ x.pc = "ack" /\ x.job = s
      /\ \A v \in Vehicles : x.lane[v] = IF v = w THEN lane ELSE pod[p].lane[v]
  BY <1>2, <1>3, <1>6 DEF PodState, Stages
<1> HIDE DEF x
<1>9. ASSUME Orderly PROVE \A r \in recorded : Vehicle(r) = w => r < s
  <2>1. Warmed(p) /\ ~ Stale(p) /\ pod[p].pc # "idle"
    BY <1>1, <1>9 DEF PodsInv, Decided
  <2> QED
    BY <1>1, <1>3, <1>4, <1>9, <2>1, AboveRecorded
<1>10. Orderly => \A e \in emitted' \ recorded' : FALSE
  BY <1>1, <1>3, <1>7, OwnEmissions
<1>11. ASSUME Orderly PROVE TailEndsHighest'
  <2> SUFFICES ASSUME NEW r \in recorded'
               PROVE  tail'[Vehicle(r)] # <<>> /\ r <= tail'[Vehicle(r)][Len(tail'[Vehicle(r)])]
    BY <1>1 DEF TailEndsHighest, Vehicle
  <2>1. r \in Nat /\ s \in Nat /\ tail[w] \in Seq(Nat)
    BY <1>5, <1>7
  <2>2. CASE Vehicle(r) = w
    <3>1. tail'[w] = Append(tail[w], s)
      BY <1>5, <1>7
    <3>2. tail'[w] # <<>> /\ tail'[w][Len(tail'[w])] = s
      BY SMTT(20), <2>1, <3>1
    <3>3. r <= s
      BY <1>7, <1>9, <1>11, <2>1, <2>2
    <3> QED
      BY <2>2, <3>2, <3>3
  <2>3. CASE Vehicle(r) # w
    <3>1. r \in recorded
      BY <1>4, <1>7, <2>3
    <3>2. tail[Vehicle(r)] # <<>> /\ r <= tail[Vehicle(r)][Len(tail[Vehicle(r)])]
      BY <1>11, <3>1 DEF PodsInv, TailEndsHighest
    <3>3. tail'[Vehicle(r)] = tail[Vehicle(r)]
      <4>1. raw \in Seq(Event) /\ r \in DOMAIN raw
        BY <1>5, <3>1 DEF ReplayInv, ReplayTypes, Events
      <4>2. raw[r] \in Event
        BY <4>1
      <4>3. Vehicle(r) \in Vehicles
        BY <4>2 DEF Event, Vehicle
      <4> QED
        BY <1>5, <1>7, <2>3, <4>3
    <3> QED
      BY <3>2, <3>3
  <2> QED
    BY <2>2, <2>3
<1>12. ASSUME Orderly, NEW v \in Vehicles, x.lane[v] # {}, NEW r \in recorded', Vehicle(r) = v
       PROVE  \E l \in UNION x.lane[v] : r <= l
  <2>1. r \in Nat /\ s \in Nat
    BY <1>5, <1>7
  <2>2. CASE v = w
    <3>1. r <= s
      BY <1>7, <1>9, <1>12, <2>1, <2>2
    <3> QED
      BY <1>6, <1>8, <2>2, <3>1
  <2>3. CASE v # w
    <3>1. r \in recorded
      BY <1>4, <1>7, <1>12, <2>3
    <3> QED
      BY <1>1, <1>8, <1>12, <2>3, <3>1 DEF PodsInv, LaneHasHighest
  <2> QED
    BY <2>2, <2>3
<1> QED
  BY <1>1, <1>7, <1>8, <1>10, <1>11, <1>12, OwnStep

\* Every step keeps the pods' invariant.
LEMMA PodsStep == ReplayInv /\ FleetInv /\ PodsInv /\ [Next]_vars => PodsInv'
<1> SUFFICES ASSUME ReplayInv, FleetInv, PodsInv, [Next]_vars PROVE PodsInv'
  OBVIOUS
<1>0. /\ owners \subseteq Pods /\ recorded \subseteq Events /\ pod \in [Pods -> PodState]
      /\ \A s \in Events : raw'[s] = raw[s]
  BY RawGrows DEF FleetInv, FleetTypes
<1>1. CASE UNCHANGED <<pod, owners, tail, recorded, emitted>>
  <2>1. OthersIdle'
    BY <1>1 DEF PodsInv, OthersIdle, Idle
  <2>2. ASSUME Orderly'
        PROVE  SingleOwner' /\ Decided' /\ EmittedIsRecorded' /\ TailEndsHighest' /\ LaneHasHighest'
    <3>1. Orderly
      BY <2>2, OrderlyBefore
    <3>2. SingleOwner' /\ EmittedIsRecorded'
      BY <1>1, <3>1 DEF PodsInv, SingleOwner, EmittedIsRecorded
    <3>3. TailEndsHighest' /\ LaneHasHighest'
      <4>1. \A r \in recorded : raw'[r].vehicle = raw[r].vehicle
        BY <1>0
      <4>2. TailEndsHighest'
        BY <1>1, <3>1, <4>1 DEF PodsInv, TailEndsHighest, Vehicle
      <4>3. LaneHasHighest'
        BY <1>1, <3>1, <4>1 DEF PodsInv, LaneHasHighest, Vehicle
      <4> QED
        BY <4>2, <4>3
    <3>4. Decided'
      <4> SUFFICES ASSUME NEW p \in owners,
                          pod[p].pc = "archive" \/ (pod[p].pc = "process" /\ pod[p].job \in emitted \ recorded)
                   PROVE  Warmed(p)' /\ ~ Stale(p)'
        BY <1>1 DEF Decided
      <4>1. pod[p].job \in Events /\ \A v \in Vehicles : \A entries \in pod[p].lane[v] : \A r \in entries : r \in Events
        BY <1>0, PodFacts
      <4>2. raw'[pod[p].job] = raw[pod[p].job] /\ Vehicle(pod[p].job) \in Vehicles
        BY <1>0, <4>1, PodFacts
      <4>3. Warmed(p) /\ ~ Stale(p)
        BY <3>1 DEF PodsInv, Decided
      <4>4. Lane(p)' = Lane(p) /\ \A r \in Lane(p) : raw'[r] = raw[r]
        BY <1>0, <1>1, <4>1, <4>2 DEF Lane, Vehicle
      <4>5. ~ Stale(p)'
        BY <1>1, <4>2, <4>3, <4>4 DEF Stale, Time
      <4> QED
        BY <1>1, <4>2, <4>3, <4>5 DEF Warmed, Vehicle
    <3> QED
      BY <3>2, <3>3, <3>4
  <2> QED
    BY <2>1, <2>2 DEF PodsInv
<1>2. ASSUME NEW p \in Pods, StartPod(p) PROVE PodsInv'
  <2>1. /\ p \notin owners /\ owners' = owners \cup {p} /\ torn' = (torn \/ owners # {})
        /\ UNCHANGED <<pod, tail, recorded, emitted, raw>>
    BY <1>2 DEF StartPod, broker, store, viewer
  <2>2. pod[p] = Idle /\ Idle.pc = "idle" /\ \A v \in Vehicles : Idle.lane[v] = {}
    BY <2>1 DEF PodsInv, OthersIdle, Idle
  <2>3. OthersIdle'
    BY <2>1 DEF PodsInv, OthersIdle, Idle
  <2>4. ASSUME Orderly'
        PROVE  SingleOwner' /\ Decided' /\ EmittedIsRecorded' /\ TailEndsHighest' /\ LaneHasHighest'
    <3>1. Orderly /\ owners = {}
      BY <2>1, <2>4, OrderlyBefore DEF Orderly
    <3>2. owners' = {p}
      BY <2>1, <3>1
    <3>3. emitted' \ recorded' = {}
      BY <2>1, <3>1 DEF PodsInv, EmittedIsRecorded
    <3>4. SingleOwner' /\ EmittedIsRecorded'
      BY <3>2, <3>3 DEF SingleOwner, EmittedIsRecorded
    <3>5. Decided' /\ LaneHasHighest'
      BY <2>1, <2>2, <3>2 DEF Decided, LaneHasHighest
    <3>6. TailEndsHighest'
      BY <2>1, <3>1 DEF PodsInv, TailEndsHighest, Vehicle
    <3> QED
      BY <3>4, <3>5, <3>6
  <2> QED
    BY <2>3, <2>4 DEF PodsInv
<1>3. ASSUME NEW p \in Pods, EndPod(p) PROVE PodsInv'
  <2>1. /\ p \in owners /\ owners' = owners \ {p} /\ torn' = (torn \/ pod[p].job \in emitted \ recorded)
        /\ pod' = [pod EXCEPT ![p] = Idle]
        /\ UNCHANGED <<tail, recorded, emitted, raw>>
    BY <1>3 DEF EndPod, broker, store, viewer
  <2>2. OthersIdle'
    BY <1>0, <2>1 DEF PodsInv, OthersIdle, Idle
  <2>3. ASSUME Orderly'
        PROVE  SingleOwner' /\ Decided' /\ EmittedIsRecorded' /\ TailEndsHighest' /\ LaneHasHighest'
    <3>1. Orderly /\ pod[p].job \notin emitted \ recorded
      BY <2>1, <2>3, OrderlyBefore DEF Orderly
    <3>2. owners' = {} /\ emitted' \ recorded' = {}
      BY <2>1, <3>1, OwnEmissions
    <3>3. SingleOwner' /\ EmittedIsRecorded' /\ Decided' /\ LaneHasHighest'
      BY <3>2 DEF SingleOwner, EmittedIsRecorded, Decided, LaneHasHighest
    <3>4. TailEndsHighest'
      BY <2>1, <3>1 DEF PodsInv, TailEndsHighest, Vehicle
    <3> QED
      BY <3>3, <3>4
  <2> QED
    BY <2>2, <2>3 DEF PodsInv
<1>4. ASSUME NEW p \in Pods, Pod(p) PROVE PodsInv'
  BY <1>4, OwnMoves, OwnWarm, OwnRecord DEF Pod
<1>5. CASE Producer \/ Viewer \/ LosePull \/ UNCHANGED vars
  <2>1. UNCHANGED <<pod, owners, tail, recorded, emitted>>
    BY <1>5 DEF Producer, Viewer, LosePull, Send, Await, Finish, Store, Refuse, Ingest, LoseDiff, evict_idle,
                fleet, store, viewer, vars
  <2> QED
    BY <1>1, <2>1
<1> QED
  BY <1>2, <1>3, <1>4, <1>5 DEF Next

DiffsAscend ==
    \A i, j \in DOMAIN subject :
        i <= j /\ subject[i].vehicle = subject[j].vehicle => subject[i].revision <= subject[j].revision

NoneBehind ==
    \A i \in DOMAIN subject : \A layer \in got[subject[i].vehicle] : layer[2] <= subject[i].revision

SolvesInv == Orderly => DiffsAscend /\ NoneBehind /\ HighestRevisionWins

\* The invariant of the solves holds initially.
LEMMA SolvesInit == Init => SolvesInv
<1> SUFFICES ASSUME Init PROVE SolvesInv
  OBVIOUS
<1>1. subject = <<>> /\ \A v \in Vehicles : got[v] = {}
  BY DEF Init
<1> QED
  BY <1>1 DEF SolvesInv, DiffsAscend, NoneBehind, HighestRevisionWins

\* An orderly owner emits nothing below what was emitted of the vehicle before.
LEMMA EmitsUpwards ==
    ASSUME ReplayInv, FleetInv, PodsInv, Orderly, NEW p \in Pods, NEW again \in BOOLEAN, Emit(p, again),
           NEW e \in emitted, Vehicle(e) = Vehicle(pod[p].job)
    PROVE  e <= pod[p].job
<1>1. p \in owners /\ pod[p].pc = "process" /\ Warmed(p) /\ ~ Stale(p)
  BY DEF Emit, At
<1>2. pod[p].job \in Nat /\ e \in Nat
  <2>1. raw \in Seq(Event) /\ pod[p].job \in Events /\ e \in Events
    BY <1>1, PodFacts DEF FleetInv, FleetTypes
  <2> QED
    BY <2>1 DEF Events
<1>3. CASE e \in recorded
  BY <1>1, <1>2, <1>3, AboveRecorded
<1>4. CASE e \notin recorded
  BY <1>1, <1>2, <1>4, OwnEmissions
<1> QED
  BY <1>3, <1>4

\* Every step keeps the order of the solves.
LEMMA SolvesStep ==
    ASSUME ReplayInv, FleetInv, ViewerInv, PodsInv, SolvesInv, [Next]_vars
    PROVE  SolvesInv'
<1> SUFFICES ASSUME Orderly' PROVE DiffsAscend' /\ NoneBehind' /\ HighestRevisionWins'
  BY DEF SolvesInv
<1>0. Orderly /\ DiffsAscend /\ NoneBehind /\ HighestRevisionWins
  BY OrderlyBefore DEF SolvesInv
<1>1. CASE UNCHANGED viewer
  BY <1>0, <1>1 DEF viewer, DiffsAscend, NoneBehind, HighestRevisionWins
<1>2. ASSUME NEW p \in Pods, NEW again \in BOOLEAN, Emit(p, again)
      PROVE  DiffsAscend' /\ NoneBehind' /\ HighestRevisionWins'
  <2>1. PICK d \in Diff : d.revision = pod[p].job /\ d.vehicle = Vehicle(pod[p].job)
                          /\ subject' = Append(subject, d)
    BY <1>2, ViewerEmit
  <2>2. UNCHANGED <<trace, got>> /\ subject \in Seq(Diff)
    BY <1>2 DEF Emit, ViewerInv, ViewerTypes
  <2>3. \A e \in emitted : Vehicle(e) = d.vehicle => e <= d.revision
    BY <1>0, <1>2, <2>1, EmitsUpwards
  <2>4. d.revision \in Nat /\ DOMAIN subject = 1 .. Len(subject) /\ DOMAIN subject' = 1 .. Len(subject) + 1
        /\ Len(subject) \in Nat
        /\ subject'[Len(subject) + 1] = d /\ \A i \in DOMAIN subject : subject'[i] = subject[i]
    BY <2>1, <2>2 DEF Diff
  <2>5. DiffsAscend'
    <3> SUFFICES ASSUME NEW i \in DOMAIN subject', NEW j \in DOMAIN subject', i <= j,
                        subject'[i].vehicle = subject'[j].vehicle
                 PROVE  subject'[i].revision <= subject'[j].revision
      BY DEF DiffsAscend
    <3>1. CASE j \in DOMAIN subject
      <4>1. i \in DOMAIN subject
        BY <2>4, <3>1
      <4> QED
        BY <1>0, <2>4, <3>1, <4>1 DEF DiffsAscend
    <3>2. CASE j = Len(subject) + 1 /\ i \in DOMAIN subject
      <4>1. subject[i].revision \in emitted /\ Vehicle(subject[i].revision) = subject[i].vehicle
        BY <3>2 DEF ViewerInv, Genuine
      <4> QED
        BY <2>3, <2>4, <3>2, <4>1
    <3>3. CASE j = Len(subject) + 1 /\ i = Len(subject) + 1
      BY <2>4, <3>3
    <3> QED
      BY <2>4, <3>1, <3>2, <3>3
  <2>6. NoneBehind'
    <3> SUFFICES ASSUME NEW i \in DOMAIN subject', NEW layer \in got[subject'[i].vehicle]
                 PROVE  layer[2] <= subject'[i].revision
      BY <2>2 DEF NoneBehind
    <3>1. CASE i \in DOMAIN subject
      BY <1>0, <2>4, <3>1 DEF NoneBehind
    <3>2. CASE i = Len(subject) + 1
      <4>1. d.vehicle \in Vehicles /\ subject'[i] = d
        BY <2>4, <3>2 DEF Diff
      <4>2. layer[2] \in emitted /\ Vehicle(layer[2]) = d.vehicle
        BY <4>1 DEF ViewerInv, Genuine
      <4> QED
        BY <2>3, <4>1, <4>2
    <3> QED
      BY <2>4, <3>1, <3>2
  <2> QED
    BY <1>0, <2>2, <2>5, <2>6 DEF HighestRevisionWins
<1>3. CASE Ingest \/ LoseDiff
  <2>0. subject # <<>> /\ subject' = Tail(subject)
    BY <1>3 DEF Ingest, LoseDiff
  <2>1. /\ Head(subject) = subject[1] /\ 1 \in DOMAIN subject /\ Head(subject) \in Diff
        /\ \A i \in DOMAIN subject' : i \in Nat /\ i + 1 \in DOMAIN subject /\ subject'[i] = subject[i + 1]
    BY <2>0, SubjectFacts DEF ViewerInv
  <2>2. DiffsAscend'
    <3> SUFFICES ASSUME NEW i \in DOMAIN subject', NEW j \in DOMAIN subject', i <= j,
                        subject'[i].vehicle = subject'[j].vehicle
                 PROVE  subject'[i].revision <= subject'[j].revision
      BY DEF DiffsAscend
    <3>1. i + 1 <= j + 1
      BY <2>1
    <3> QED
      BY <1>0, <2>1, <3>1 DEF DiffsAscend
  <2>3. CASE LoseDiff
    <3>1. UNCHANGED <<trace, got>>
      BY <2>3 DEF LoseDiff
    <3>2. NoneBehind' /\ HighestRevisionWins'
      BY <1>0, <2>1, <3>1 DEF NoneBehind, HighestRevisionWins
    <3> QED
      BY <2>2, <3>2
  <2>4. CASE Ingest
    <3>1. PICK d \in Diff : d = subject[1]
      BY <2>1
    <3>2. PICK w \in Vehicles : w = d.vehicle
      BY DEF Diff
    <3> DEFINE added == d.layers \X {d.revision}
    <3>3. /\ trace' = [trace EXCEPT ![w] = merge(@, d)] /\ got' = [got EXCEPT ![w] = @ \cup added]
      BY <2>1, <2>4, <3>1, <3>2 DEF Ingest
    <3>4. \A layer \in added : layer[1] \in d.layers /\ layer[2] = d.revision
      OBVIOUS
    <3>5. d.revision \in Nat /\ got \in [Vehicles -> SUBSET (Int \X Nat)] /\ DOMAIN trace = Vehicles
      BY DEF Diff, ViewerInv, ViewerTypes
    <3> HIDE DEF added
    <3>6. /\ got'[w] = got[w] \cup added /\ trace'[w] = merge(trace[w], d)
          /\ \A v \in Vehicles : v # w => got'[v] = got[v] /\ trace'[v] = trace[v]
      BY <3>3, <3>5
    <3>7. \A layer \in got[w] : layer[2] <= d.revision
      BY <1>0, <2>1, <3>1, <3>2 DEF NoneBehind
    <3>8. NoneBehind'
      <4> SUFFICES ASSUME NEW i \in DOMAIN subject', NEW layer \in got'[subject'[i].vehicle]
                   PROVE  layer[2] <= subject'[i].revision
        BY DEF NoneBehind
      <4>1. i + 1 \in DOMAIN subject /\ subject'[i] = subject[i + 1] /\ 1 <= i + 1 /\ subject[i + 1] \in Diff
        BY <2>1 DEF ViewerInv, ViewerTypes
      <4>2. CASE layer \in got[subject[i + 1].vehicle]
        BY <1>0, <4>1, <4>2 DEF NoneBehind
      <4>3. CASE layer \notin got[subject[i + 1].vehicle]
        <5>1. subject[i + 1].vehicle = w /\ layer \in added
          BY <3>6, <4>1, <4>3 DEF Diff
        <5>2. d.revision <= subject[i + 1].revision
          BY <1>0, <2>1, <3>1, <3>2, <4>1, <5>1 DEF DiffsAscend
        <5> QED
          BY <3>4, <4>1, <5>1, <5>2
      <4> QED
        BY <4>2, <4>3
    <3>9. HighestRevisionWins'
      <4> SUFFICES ASSUME NEW v \in Vehicles, NEW t \in DOMAIN trace'[v], NEW layer \in got'[v], layer[1] = t
                   PROVE  layer[2] <= trace'[v][t]
        BY DEF HighestRevisionWins
      <4>1. CASE v # w
        BY <1>0, <3>6, <4>1 DEF HighestRevisionWins
      <4>2. CASE v = w
        <5>1. t \in DOMAIN merge(trace[w], d) /\ trace'[v][t] = merge(trace[w], d)[t]
          BY <3>6, <4>2
        <5>0. \A u \in DOMAIN merge(trace[w], d) :
                 /\ u \in d.layers => merge(trace[w], d)[u] = d.revision
                 /\ u \notin d.layers => merge(trace[w], d)[u] = trace[w][u]
                 /\ u \in d.layers \/ u \in DOMAIN trace[w]
          BY ZenonT(30), MergeFacts
        <5>2. /\ t \in d.layers => merge(trace[w], d)[t] = d.revision
              /\ t \notin d.layers => merge(trace[w], d)[t] = trace[w][t]
          BY <5>0, <5>1
        <5>3. t \in d.layers \/ t \in DOMAIN trace[w]
          BY <5>0, <5>1
        <5>4. CASE t \in d.layers
          <6>1. layer[2] <= d.revision
            BY <3>4, <3>5, <3>6, <3>7, <4>2
          <6> QED
            BY <5>1, <5>2, <5>4, <6>1
        <5>5. CASE t \notin d.layers
          <6>1. layer \in got[w] /\ t \in DOMAIN trace[w]
            BY <3>4, <3>6, <4>2, <5>3, <5>5
          <6>2. layer[2] <= trace[w][t]
            BY <1>0, <6>1 DEF HighestRevisionWins
          <6> QED
            BY <5>1, <5>2, <5>5, <6>2
        <5> QED
          BY <5>4, <5>5
      <4> QED
        BY <4>1, <4>2
    <3> QED
      BY <2>2, <3>8, <3>9
  <2> QED
    BY <1>3, <2>3, <2>4
<1>4. ASSUME NEW w \in Vehicles, evict_idle(w)
      PROVE  DiffsAscend' /\ NoneBehind' /\ HighestRevisionWins'
  <2>1. /\ trace' = [trace EXCEPT ![w] = <<>>] /\ got' = [got EXCEPT ![w] = {}] /\ subject' = subject
    BY <1>4 DEF evict_idle
  <2>2. got \in [Vehicles -> SUBSET (Int \X Nat)] /\ DOMAIN trace = Vehicles /\ subject \in Seq(Diff)
    BY DEF ViewerInv, ViewerTypes
  <2>3. got'[w] = {} /\ \A v \in Vehicles : v # w => got'[v] = got[v] /\ trace'[v] = trace[v]
    BY <2>1, <2>2
  <2>4. \A i \in DOMAIN subject : subject[i].vehicle \in Vehicles
    <3>1. \A i \in DOMAIN subject : subject[i] \in Diff
      BY <2>2
    <3> QED
      BY <3>1 DEF Diff
  <2>5. NoneBehind'
    BY <1>0, <2>1, <2>3, <2>4 DEF NoneBehind
  <2>6. HighestRevisionWins'
    BY <1>0, <2>3 DEF HighestRevisionWins
  <2> QED
    BY <1>0, <2>1, <2>5, <2>6 DEF DiffsAscend
<1> QED
  BY <1>1, <1>2, <1>3, <1>4, OthersLeaveViewer

\* All five invariants hold in every state.
LEMMA SolvesAlways == Spec => [](ReplayInv /\ FleetInv /\ ViewerInv /\ PodsInv /\ SolvesInv)
<1> DEFINE I == ReplayInv /\ FleetInv /\ ViewerInv /\ PodsInv /\ SolvesInv
<1>1. Init => I
  BY ReplayInit, FleetInit, ViewerInit, PodsInit, SolvesInit
<1>2. I /\ [Next]_vars => I'
  BY ReplayStep, FleetStep, ViewerStep, PodsStep, SolvesStep
<1> QED
  BY <1>1, <1>2, PTL DEF Spec

\* The viewer, which never compares revisions, shows the highest all the same
\* while one pod at a time owns the partition, none ends between an emission and
\* its record, and a supplier's clock never goes back.
THEOREM LatestSolveWins == Spec => []TraceIsLatestSolve
<1>1. ReplayInv /\ FleetInv /\ ViewerInv /\ PodsInv /\ SolvesInv => TraceIsLatestSolve
  BY DEF SolvesInv, Orderly, TraceIsLatestSolve
<1> QED
  BY <1>1, SolvesAlways, PTL

-----------------------------------------------------------------------------
(* Placement of the tails.                                                 *)

\* Primary x is chosen before primary y.
Beats(weight, x, y) == \/ weight[y] < weight[x]
                       \/ weight[y] = weight[x] /\ y <= x

\* Of finitely many primaries one beats all.
LEMMA HeaviestExists ==
    ASSUME NEW T, T \subseteq Primaries, T # {}, NEW weight \in [Primaries -> Weights]
    PROVE  \E b \in T : \A y \in T : Beats(weight, b, y)
<1> DEFINE NotBelow(x) == {y \in T : Beats(weight, y, x)}
           counts == {Cardinality(NotBelow(x)) : x \in T}
<1>1. \A x \in T : weight[x] \in Nat /\ x \in Nat
  BY ServiceAssumption
<1>2. IsFiniteSet(T)
  BY ServiceAssumption, FS_Subset
<1>3. \A x \in T : IsFiniteSet(NotBelow(x)) /\ Cardinality(NotBelow(x)) \in Nat
  BY <1>2, FS_Subset, FS_CardinalityType
<1>4. counts \subseteq Nat /\ counts # {}
  BY <1>3
<1>5. PICK c \in counts : \A d \in counts : c <= d
  <2> HIDE DEF counts
  <2> QED
    BY <1>4, NatMin
<1>6. PICK b \in T : c = Cardinality(NotBelow(b))
  OBVIOUS
<1>7. ASSUME NEW y \in T, ~ Beats(weight, b, y) PROVE FALSE
  <2>1. Beats(weight, y, b) /\ \A x \in T : Beats(weight, x, y) => Beats(weight, x, b)
    BY <1>1, <1>7 DEF Beats
  <2>2. Beats(weight, b, b)
    BY <1>1 DEF Beats
  <2>3. NotBelow(y) \in SUBSET NotBelow(b) /\ b \in NotBelow(b) /\ b \notin NotBelow(y)
    BY <1>7, <2>1, <2>2
  <2>4. Cardinality(NotBelow(y)) <= Cardinality(NotBelow(b)) /\ Cardinality(NotBelow(y)) # Cardinality(NotBelow(b))
    BY <1>3, <2>3, FS_Subset
  <2>5. c <= Cardinality(NotBelow(y))
    BY <1>5
  <2> QED
    BY <1>3, <1>6, <2>4, <2>5
<1> QED
  BY <1>7

\* The index that is chosen is the one of the primary that beats all.
LEMMA IndexOfHeaviest ==
    ASSUME NEW weight \in [Primaries -> Weights], NEW urls \in Seq(Primaries),
           NEW b \in DOMAIN urls, \A j \in DOMAIN urls : Beats(weight, urls[b], urls[j])
    PROVE  urls[index_for(urls, weight)] = urls[b]
<1> DEFINE Best(i) == \A j \in DOMAIN urls : \/ weight[urls[j]] < weight[urls[i]]
                                             \/ weight[urls[j]] = weight[urls[i]] /\ urls[j] <= urls[i]
           c == index_for(urls, weight)
<1>1. \A i \in DOMAIN urls : urls[i] \in Nat /\ weight[urls[i]] \in Nat
  <2>1. \A i \in DOMAIN urls : urls[i] \in Primaries
    OBVIOUS
  <2> QED
    BY <2>1, ServiceAssumption
<1>2. Best(b)
  BY DEF Beats
<1>3. c \in DOMAIN urls /\ Best(c)
  BY <1>2 DEF index_for
<1> QED
  BY <1>1, <1>2, <1>3

\* A listing of the primaries has each of them.
LEMMA ListingFacts ==
    ASSUME NEW urls \in SetToSeqs(Primaries)
    PROVE  urls \in Seq(Primaries) /\ \A x \in Primaries : \E i \in DOMAIN urls : urls[i] = x
<1> DEFINE n == Cardinality(Primaries)
<1>1. IsFiniteSet(Primaries) /\ n \in Nat
  BY ServiceAssumption, FS_CardinalityType
<1> HIDE DEF n
<1>2. urls \in [1 .. n -> Primaries] /\ \A i, j \in 1 .. n : i # j => urls[i] # urls[j]
  BY DEF SetToSeqs, n
<1>3. urls \in Injection(1 .. n, Primaries)
  BY <1>2 DEF Injection, IsInjective
<1>4. Cardinality(1 .. n) = n
  BY <1>1, FS_Interval
<1>5. urls \in Surjection(1 .. n, Primaries)
  BY <1>1, <1>3, <1>4, FS_Injection DEF n
<1> QED
  BY <1>1, <1>2, <1>5 DEF Surjection

\* The order of the listing decides nothing and a new primary only attracts
\* (index_for of store/redis.rs), for any number of primaries and any weights.
THEOREM PlacementHolds == Spec => []PlacementIsStable
<1>1. PlacementIsStable
  <2> SUFFICES ASSUME NEW weight \in [Primaries -> Weights], NEW urls \in SetToSeqs(Primaries)
               PROVE  LET chosen == urls[index_for(urls, weight)]
                      IN  /\ \A other \in SetToSeqs(Primaries) : other[index_for(other, weight)] = chosen
                          /\ \A i \in DOMAIN urls :
                               Len(urls) > 1 /\ urls[i] # chosen =>
                                 LET fewer == RemoveAt(urls, i)
                                 IN  fewer[index_for(fewer, weight)] = chosen
    BY DEF PlacementIsStable
  <2> DEFINE chosen == urls[index_for(urls, weight)]
  <2>1. CASE Primaries = {}
    <3>1. \A other \in SetToSeqs(Primaries) : other = <<>>
      BY <2>1, ListingFacts, NoIndexIsEmpty
    <3>2. urls = <<>> /\ \A i \in DOMAIN urls : FALSE
      BY <3>1
    <3> QED
      BY <3>1, <3>2
  <2>2. CASE Primaries # {}
    <3>1. PICK b \in Primaries : \A y \in Primaries : Beats(weight, b, y)
      BY <2>2, HeaviestExists
    <3>2. ASSUME NEW other \in SetToSeqs(Primaries) PROVE other[index_for(other, weight)] = b
      <4>1. other \in Seq(Primaries) /\ \E i \in DOMAIN other : other[i] = b
        BY ListingFacts
      <4>2. PICK i \in DOMAIN other : other[i] = b
        BY <4>1
      <4>3. \A j \in DOMAIN other : other[j] \in Primaries /\ Beats(weight, other[i], other[j])
        BY <3>1, <4>1, <4>2
      <4> QED
        BY <4>1, <4>2, <4>3, IndexOfHeaviest
    <3>3. chosen = b
      BY <3>2
    <3>4. ASSUME NEW i \in DOMAIN urls, urls[i] # b
          PROVE  LET fewer == RemoveAt(urls, i) IN fewer[index_for(fewer, weight)] = b
      <4> DEFINE fewer == RemoveAt(urls, i)
      <4>1. urls \in Seq(Primaries) /\ Len(urls) \in Nat /\ i \in 1 .. Len(urls)
        BY ListingFacts
      <4>2. fewer \in Seq(Primaries) /\ Len(fewer) = Len(urls) - 1
            /\ \A k \in 1 .. Len(urls) - 1 : fewer[k] = IF k < i THEN urls[k] ELSE urls[k + 1]
        BY <4>1, RemoveAtFacts
      <4> HIDE DEF fewer
      <4>3. PICK k \in 1 .. Len(urls) : urls[k] = b
        BY <4>1, ListingFacts
      <4>4. k # i
        BY <3>4, <4>3
      <4>5. \E m \in DOMAIN fewer : fewer[m] = b
        <5>1. CASE k < i
          <6>1. k \in 1 .. Len(urls) - 1
            BY <4>1, <5>1
          <6> QED
            BY <4>2, <4>3, <5>1, <6>1
        <5>2. CASE k > i
          <6>1. k - 1 \in 1 .. Len(urls) - 1 /\ ~ (k - 1 < i) /\ (k - 1) + 1 = k
            BY <4>1, <5>2
          <6>2. fewer[k - 1] = urls[k]
            BY <4>2, <6>1
          <6> QED
            BY <4>2, <4>3, <6>1, <6>2
        <5> QED
          BY <4>1, <4>3, <4>4, <5>1, <5>2
      <4>6. PICK m \in DOMAIN fewer : fewer[m] = b
        BY <4>5
      <4>7. \A j \in DOMAIN fewer : Beats(weight, fewer[m], fewer[j])
        BY <3>1, <4>2, <4>6
      <4>8. fewer[index_for(fewer, weight)] = b
        BY <4>2, <4>6, <4>7, IndexOfHeaviest
      <4> QED
        BY <4>8 DEF fewer
    <3> QED
      BY <3>2, <3>3, <3>4
  <2> QED
    BY <2>1, <2>2
<1> QED
  BY <1>1, PTL
=============================================================================
