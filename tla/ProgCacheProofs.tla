-------------------------- MODULE ProgCacheProofs --------------------------
(***************************************************************************)
(* Theorems about ProgCache, for any number of goroutines and requests, a  *)
(* child that dies, leaves or repeats itself, and pipes of any size.       *)
(***************************************************************************)
EXTENDS ProgCache, FiniteSetTheorems, SequenceTheorems, TLAPS

Registering == {d \in Clients : pc[d] = "register"}
CloserDone == pc[Closer] \in {"lock", "write", "body", "await", "failed", "cancel", "drain", "closed"}

(* Every goroutine about to register, the Closer included, has an id left. *)
IdsLeft ==
    /\ nextID + Cardinality(Registering) + (IF CloserDone THEN 0 ELSE 1) <= MaxRequests
    /\ pc[Closer] # "idle" /\ pc[Closer] # "starting" => closing
    /\ closing => Registering = {}

(* A lookup has a key, and a save an output too.                           *)
WellFormed(r) ==
    /\ r \in Requests
    /\ r.cmd = "get" => r.key \in Ids
    /\ r.cmd = "put" => r.key \in Ids /\ r.out \in Outputs

Formed ==
    /\ \A c \in Callers : WellFormed(call[c])
    /\ \A k \in DOMAIN stdin : WellFormed(stdin[k][1])
    /\ head # None => WellFormed(head)
    /\ \A r \in pending : WellFormed(r)

Phases ==
    /\ \A c \in Clients : pc[c] \notin {"starting", "cancel", "drain", "closed"}
    /\ \A c \in Callers : (pc[c] \in {"write", "body"}) <=> (writeMu = c)
    /\ \A c \in Callers : pc[c] = "body" => call[c].cmd = "put"

(* A channel is registered for one request at a time, from the moment that *)
(* it has an id to the moment that it has its answer.                      *)
Registered(c) == inFlight[call[c].id] = c

ChannelOf(c) ==
    /\ pc[c] \in {"lock", "write", "body", "failed"} => Registered(c) /\ resc[c] = None
    /\ pc[c] \in {"await", "starting"} => Registered(c) # (resc[c] # None)
    /\ pc[c] \in {"idle", "register", "unable", "cancel", "drain", "closed"} =>
          resc[c] = None /\ \A n \in 0..MaxRequests : inFlight[n] # c

IdOf(n) == inFlight[n] # None => n <= nextID /\ call[inFlight[n]].id = n

Channels ==
    /\ \A n \in 0..MaxRequests : IdOf(n)
    /\ \A c \in Callers : ChannelOf(c)

(* What the child can answer, or has answered, was asked for in full, so   *)
(* whoever still waits for it is past the writing.                         *)
Asked(n) ==
    /\ n <= nextID
    /\ inFlight[n] # None => pc[inFlight[n]] \in {"await", "starting"}

Whole(m) == m[2] = "body" \/ m[1].cmd # "put"

Timely ==
    /\ \A k \in DOMAIN stdin : Whole(stdin[k]) => Asked(stdin[k][1].id)
    /\ \A r \in pending : Asked(r.id)
    /\ \A k \in DOMAIN stdout : Asked(stdout[k].id)

(* A body follows its head, and a head without its body is the last thing  *)
(* written: its writer holds writeMu, or nobody can write any more.        *)
Opens(m) == m[2] = "head" /\ m[1].cmd = "put"
Unfinished(r) ==
    \/ writeMu # None /\ pc[writeMu] = "body" /\ call[writeMu] = r
    \/ ~Connected

BodyAt(k) ==
    stdin[k][2] = "body" =>
       /\ stdin[k][1].cmd = "put"
       /\ IF k = 1 THEN head = stdin[k][1] ELSE stdin[k - 1] = <<stdin[k][1], "head">>

HeadAt(k) ==
    Opens(stdin[k]) =>
       IF k = Len(stdin) THEN Unfinished(stdin[k][1]) ELSE stdin[k + 1] = <<stdin[k][1], "body">>

HeadRead ==
    head # None =>
       /\ head.cmd = "put"
       /\ IF stdin = <<>> THEN Unfinished(head) ELSE stdin[1] = <<head, "body">>

BodyDue(c) ==
    pc[c] = "body" /\ Connected =>
       IF stdin = <<>> THEN head = call[c] ELSE stdin[Len(stdin)] = <<call[c], "head">>

Framed ==
    /\ \A k \in DOMAIN stdin : BodyAt(k) /\ HeadAt(k)
    /\ HeadRead
    /\ \A c \in Callers : BodyDue(c)

IInv == TypeOK /\ IdsLeft /\ Formed /\ Phases /\ Channels /\ Timely /\ Framed

(* What Append, Head and Tail do to the messages of a pipe. *)
LEMMA Appended ==
    ASSUME NEW S, NEW s \in Seq(S), NEW e \in S
    PROVE  /\ Append(s, e) \in Seq(S) /\ Len(Append(s, e)) = Len(s) + 1 /\ Append(s, e) # <<>>
           /\ DOMAIN s = 1..Len(s) /\ DOMAIN Append(s, e) = 1..(Len(s) + 1) /\ Len(s) \in Nat
           /\ \A k \in 1..Len(s) : Append(s, e)[k] = s[k]
           /\ Append(s, e)[Len(s) + 1] = e
           /\ (s = <<>> <=> Len(s) = 0)
  OBVIOUS

LEMMA EmptyPipe ==
    ASSUME NEW S, NEW s \in Seq(S)
    PROVE  s = <<>> <=> Len(s) = 0
  OBVIOUS

LEMMA Shifted ==
    ASSUME NEW S, NEW s \in Seq(S), s # <<>>
    PROVE  /\ Head(s) \in S /\ Head(s) = s[1] /\ Len(s) \in Nat \ {0}
           /\ Tail(s) \in Seq(S) /\ Len(Tail(s)) = Len(s) - 1
           /\ DOMAIN s = 1..Len(s) /\ DOMAIN Tail(s) = 1..(Len(s) - 1)
           /\ \A k \in 1..(Len(s) - 1) : Tail(s)[k] = s[k + 1]
           /\ (Tail(s) = <<>> <=> Len(s) = 1)
<1> DEFINE t == Tail(s)
<1>1. /\ Len(s) \in Nat \ {0} /\ t \in Seq(S) /\ Len(t) = Len(s) - 1
  OBVIOUS
<1>2. t = <<>> <=> Len(t) = 0
  <2> HIDE DEF t
  <2> QED
    BY <1>1, EmptyPipe
<1> QED
  BY <1>1, <1>2

(* Whoever registers finds an id that is not used yet. *)
LEMMA IdLeft ==
    ASSUME TypeOK, IdsLeft, NEW c \in Callers, pc[c] = "register"
    PROVE  nextID + 1 \in 1..MaxRequests
<1> USE ProgAssumption DEF ProgAssumption, Callers
<1>1. IsFiniteSet(Registering) /\ Cardinality(Registering) \in Nat
  BY FS_Subset, FS_CardinalityType DEF Registering
<1>2. CASE c \in Clients
  <2>1. Cardinality(Registering) # 0
    BY <1>1, <1>2, FS_EmptySet DEF Registering
  <2> QED
    BY <1>1, <2>1 DEF IdsLeft, TypeOK
<1>3. CASE c = Closer
  BY <1>1, <1>3 DEF IdsLeft, CloserDone, TypeOK
<1> QED
  BY <1>2, <1>3

(* Every step keeps the types, and what is asked for has a key.            *)
LEMMA TypeStep ==
    ASSUME TypeOK, IdsLeft, Formed, [Next]_vars
    PROVE  TypeOK' /\ Formed'
<1> USE ProgAssumption DEF ProgAssumption, Callers
<1>1. ASSUME NEW c \in Clients, NEW cmd \in {"get", "put"}, NEW i \in Ids,
             NEW o \in Outputs \cup {None},
             cmd = "put" => o \in Outputs, Begin(c, cmd, i, o)
      PROVE  TypeOK' /\ Formed'
  BY <1>1 DEF Begin, Busy, childVars, closeVars, Requests, WellFormed, Formed, Step, TypeOK
<1>2. ASSUME NEW c \in Callers, Unable(c)
      PROVE  TypeOK' /\ Formed'
  BY <1>2 DEF Unable, childVars, closeVars, callVars, Formed, NotFound, Step, TypeOK
<1>3. ASSUME NEW c \in Callers, Register(c)
      PROVE  TypeOK' /\ Formed'
  <2>1. nextID + 1 \in 1..MaxRequests
    BY <1>3, IdLeft DEF Register, Step
  <2> QED
    BY <1>3, <2>1 DEF Register, NewID, childVars, closeVars, Answers, Requests, WellFormed,
       Formed, Step, TypeOK
<1>4. ASSUME NEW c \in Callers, LockWriter(c)
      PROVE  TypeOK' /\ Formed'
  BY <1>4 DEF LockWriter, MayWrite, childVars, closeVars, Formed, Step, TypeOK
<1>5. ASSUME NEW c \in Callers, Write(c)
      PROVE  TypeOK' /\ Formed'
  <2>1. /\ <<call[c], "head">> \in Requests \X {"head", "body"}
        /\ stdin \in Seq(Requests \X {"head", "body"}) /\ stdin' = Append(stdin, <<call[c], "head">>)
    BY <1>5 DEF Write, Send, TypeOK
  <2>2. /\ stdin' \in Seq(Requests \X {"head", "body"}) /\ Len(stdin') = Len(stdin) + 1 /\ Len(stdin) < PipeSize
        /\ \A k \in DOMAIN stdin' : WellFormed(stdin'[k][1])
      BY <1>5, <2>1, Appended DEF Write, Send, Formed
  <2>3. TypeOK'
    BY <1>5, <2>2 DEF Write, Send, childVars, closeVars, Step, TypeOK
  <2> QED
    BY <1>5, <2>2, <2>3 DEF Write, Send, childVars, Formed
<1>6. ASSUME NEW c \in Callers, WriteBody(c)
      PROVE  TypeOK' /\ Formed'
  <2>1. /\ <<call[c], "body">> \in Requests \X {"head", "body"}
        /\ stdin \in Seq(Requests \X {"head", "body"}) /\ stdin' = Append(stdin, <<call[c], "body">>)
    BY <1>6 DEF WriteBody, Send, TypeOK
  <2>2. /\ stdin' \in Seq(Requests \X {"head", "body"}) /\ Len(stdin') = Len(stdin) + 1 /\ Len(stdin) < PipeSize
        /\ \A k \in DOMAIN stdin' : WellFormed(stdin'[k][1])
      BY <1>6, <2>1, Appended DEF WriteBody, Send, Formed
  <2>3. TypeOK'
    BY <1>6, <2>2 DEF WriteBody, Send, childVars, closeVars, Step, TypeOK
  <2> QED
    BY <1>6, <2>2, <2>3 DEF WriteBody, Send, childVars, Formed
<1>7. ASSUME NEW c \in Callers, WriteFails(c)
      PROVE  TypeOK' /\ Formed'
  <2>1. pc' = [pc EXCEPT ![c] = "failed"] /\ writeMu' = None
    BY <1>7 DEF WriteFails, Step
  <2> QED
    BY <1>7, <2>1 DEF WriteFails, childVars, closeVars, Formed, TypeOK
<1>8. ASSUME NEW c \in Callers, BodyErrorDropped(c)
      PROVE  TypeOK' /\ Formed'
  BY <1>8 DEF BodyErrorDropped, childVars, closeVars, Formed, Step, TypeOK
<1>9. ASSUME NEW c \in Callers, Unregister(c)
      PROVE  TypeOK' /\ Formed'
  BY <1>9 DEF Unregister, childVars, closeVars, Formed, AfterCall, NotFound, Step, TypeOK
<1>10. ASSUME NEW c \in Callers, Return(c)
      PROVE  TypeOK' /\ Formed'
  <2>1. AfterCall(c) \in {"cancel", "idle"} /\ resc' \in [Callers -> Answers \cup {None}]
    BY <1>10 DEF Return, AfterCall, TypeOK
  <2>2. resc[c].out \in Outputs \cup {Miss}
    BY <1>10 DEF Return, Answers, TypeOK
  <2>3. reply' \in [Callers -> Outputs \cup {Miss, None}]
    <3>1. reply' = NotFound(c) \/ reply' = [reply EXCEPT ![c] = resc[c].out]
      BY <1>10 DEF Return
    <3>2. NotFound(c) \in [Callers -> Outputs \cup {Miss, None}]
      BY DEF NotFound, TypeOK
    <3>3. reply \in [Callers -> Outputs \cup {Miss, None}]
      BY DEF TypeOK
    <3> QED
      BY <2>2, <3>1, <3>2, <3>3
  <2> QED
    BY <1>10, <2>1, <2>3 DEF Return, childVars, closeVars, callVars, Formed, TypeOK
<1>11. CASE Started
  BY <1>11 DEF Started, childVars, callVars, Formed, Step, TypeOK
<1>12. CASE BeginClose
  BY <1>12 DEF BeginClose, Busy, childVars, NoRequest, Requests, WellFormed, Formed, Step,
     TypeOK
<1>13. CASE Cancel
  BY <1>13 DEF Cancel, childVars, callVars, Formed, Step, TypeOK
<1>14. CASE CloseStdin
  BY <1>14 DEF CloseStdin, childVars, callVars, Formed, TypeOK
<1>15. CASE Closed
  BY <1>15 DEF Closed, childVars, closeVars, callVars, Formed, Step, TypeOK
<1>16. CASE Deliver
  <2>1. /\ Head(stdout) \in Answers /\ Tail(stdout) \in Seq(Answers) /\ Len(Tail(stdout)) <= PipeSize
    <3>1. stdout \in Seq(Answers) /\ stdout # <<>> /\ Len(stdout) <= PipeSize
      BY <1>16 DEF Deliver, TypeOK
    <3>2. Len(stdout) \in Nat \ {0} /\ Len(Tail(stdout)) = Len(stdout) - 1 /\ PipeSize \in Nat
      BY <3>1, Shifted
    <3> QED
      BY <3>1, <3>2, Shifted
  <2>2. inFlight' \in [0..MaxRequests -> Callers \cup {None}]
    <3>1. inFlight' = inFlight \/ inFlight' = [inFlight EXCEPT ![Head(stdout).id] = None]
      BY <1>16 DEF Deliver
    <3> QED
      BY ZenonT(60), <3>1 DEF TypeOK
  <2>3. resc' \in [Callers -> Answers \cup {None}] /\ fatal' \in BOOLEAN
    <3> DEFINE n == Head(stdout).id
    <3>1. n \in 0..MaxRequests
      BY <2>1 DEF Answers
    <3>2. CASE inFlight[n] # None /\ resc' = [resc EXCEPT ![inFlight[n]] = Head(stdout)] /\ UNCHANGED fatal
      BY <2>1, <3>1, <3>2 DEF TypeOK
    <3>3. CASE fatal' = TRUE /\ UNCHANGED resc
      BY <3>3 DEF TypeOK
    <3> QED
      BY <1>16, <3>2, <3>3 DEF Deliver
  <2> QED
    BY <1>16, <2>1, <2>2, <2>3 DEF Deliver, childVars, Formed, TypeOK
<1>17. CASE EndOfAnswers
  BY <1>17 DEF EndOfAnswers, Looping, QuietEnd, childVars, callVars, Formed, TypeOK
<1>18. CASE ReadRequest
  <2>1. /\ Head(stdin) \in Requests \X {"head", "body"} /\ WellFormed(Head(stdin)[1])
        /\ Tail(stdin) \in Seq(Requests \X {"head", "body"}) /\ Len(Tail(stdin)) <= PipeSize
        /\ \A k \in DOMAIN Tail(stdin) : WellFormed(Tail(stdin)[k][1])
      BY <1>18, Shifted DEF ReadRequest, Formed, TypeOK
  <2>2. /\ head' \in Requests \cup {None} /\ (head' # None => WellFormed(head'))
        /\ pending' \subseteq Requests /\ \A r \in pending' : WellFormed(r)
    BY <1>18, <2>1 DEF ReadRequest, Formed, TypeOK
  <2>3. TypeOK'
    BY <1>18, <2>1, <2>2 DEF ReadRequest, closeVars, callVars, TypeOK
  <2> QED
    BY <1>18, <2>1, <2>2, <2>3 DEF ReadRequest, callVars, Formed
<1>19. CASE ChildExits
  BY <1>19 DEF ChildExits, ChildGone, closeVars, callVars, TypeOK
<1>20. CASE ChildDies
  BY <1>20 DEF ChildDies, ChildGone, closeVars, callVars, Formed, TypeOK
<1>21. CASE ChildLeaves
  BY <1>21 DEF ChildLeaves, ChildGone, closeVars, callVars, Formed, TypeOK
<1>22. ASSUME NEW r \in pending, AnswerRequest(r)
      PROVE  TypeOK' /\ Formed'
  BY <1>22 DEF AnswerRequest, Stored, closeVars, callVars, Answers, Requests, WellFormed,
     Formed, TypeOK
<1>23. ASSUME NEW i \in Ids, Evict(i)
      PROVE  TypeOK' /\ Formed'
  BY <1>23 DEF Evict, closeVars, callVars, Formed, TypeOK
<1>24. CASE UNCHANGED vars
  BY <1>24 DEF vars, childVars, closeVars, callVars, Formed, TypeOK
<1> QED
  BY <1>1, <1>2, <1>3, <1>4, <1>5, <1>6, <1>7, <1>8, <1>9, <1>10, <1>11, <1>12, <1>13, <1>14,
     <1>15, <1>16, <1>17, <1>18, <1>19, <1>20, <1>21, <1>22, <1>23, <1>24 DEF Next, Steps,
     CloserSteps, Serve

(* writeMu is held while a request is written.                             *)
LEMMA PhaseStep ==
    ASSUME TypeOK, Phases, [Next]_vars
    PROVE  Phases'
<1> USE ProgAssumption DEF ProgAssumption, Callers
<1>1. ASSUME NEW c \in Clients, NEW cmd \in {"get", "put"}, NEW i \in Ids,
             NEW o \in Outputs \cup {None},
             cmd = "put" => o \in Outputs, Begin(c, cmd, i, o)
      PROVE  Phases'
  BY <1>1 DEF Begin, Busy, Phases, Step
<1>2. ASSUME NEW c \in Callers, Unable(c)
      PROVE  Phases'
  BY <1>2 DEF Unable, callVars, Phases, Step
<1>3. ASSUME NEW c \in Callers, Register(c)
      PROVE  Phases'
  BY <1>3 DEF Register, NewID, Phases, Step
<1>4. ASSUME NEW c \in Callers, LockWriter(c)
      PROVE  Phases'
  BY <1>4 DEF LockWriter, MayWrite, Phases, Step, TypeOK
<1>5. ASSUME NEW c \in Callers, Write(c)
      PROVE  Phases'
  BY <1>5 DEF Write, Send, Phases, Step, TypeOK
<1>6. ASSUME NEW c \in Callers, WriteBody(c)
      PROVE  Phases'
  BY <1>6 DEF WriteBody, Send, Phases, Step, TypeOK
<1>7. ASSUME NEW c \in Callers, WriteFails(c)
      PROVE  Phases'
  BY <1>7 DEF WriteFails, childVars, closeVars, Phases, Step, TypeOK
<1>8. ASSUME NEW c \in Callers, BodyErrorDropped(c)
      PROVE  Phases'
  BY <1>8 DEF BodyErrorDropped, Phases, Step, TypeOK
<1>9. ASSUME NEW c \in Callers, Unregister(c)
      PROVE  Phases'
  BY <1>9 DEF Unregister, Phases, AfterCall, Step
<1>10. ASSUME NEW c \in Callers, Return(c)
      PROVE  Phases'
  BY <1>10 DEF Return, callVars, Phases, AfterCall, Step
<1>11. CASE Started
  BY <1>11 DEF Started, callVars, Phases, Step
<1>12. CASE BeginClose
  BY <1>12 DEF BeginClose, Busy, Phases, Step
<1>13. CASE Cancel
  BY <1>13 DEF Cancel, callVars, Phases, Step
<1>14. CASE CloseStdin
  BY <1>14 DEF CloseStdin, callVars, Phases
<1>15. CASE Closed
  BY <1>15 DEF Closed, callVars, Phases, Step
<1>16. CASE Deliver
  BY <1>16 DEF Deliver, Looping, Phases
<1>17. CASE EndOfAnswers
  BY <1>17 DEF EndOfAnswers, Looping, QuietEnd, callVars, Phases
<1>18. CASE ReadRequest
  BY <1>18 DEF ReadRequest, callVars, Phases
<1>19. CASE ChildExits
  BY <1>19 DEF ChildExits, ChildGone, callVars, Phases
<1>20. CASE ChildDies
  BY <1>20 DEF ChildDies, ChildGone, callVars, Phases
<1>21. CASE ChildLeaves
  BY <1>21 DEF ChildLeaves, ChildGone, callVars, Phases
<1>22. ASSUME NEW r \in pending, AnswerRequest(r)
      PROVE  Phases'
  BY <1>22 DEF AnswerRequest, Stored, callVars, Phases
<1>23. ASSUME NEW i \in Ids, Evict(i)
      PROVE  Phases'
  BY <1>23 DEF Evict, callVars, Phases
<1>24. CASE UNCHANGED vars
  BY <1>24 DEF vars, callVars, Phases
<1> QED
  BY <1>1, <1>2, <1>3, <1>4, <1>5, <1>6, <1>7, <1>8, <1>9, <1>10, <1>11, <1>12, <1>13, <1>14,
     <1>15, <1>16, <1>17, <1>18, <1>19, <1>20, <1>21, <1>22, <1>23, <1>24 DEF Next, Steps,
     CloserSteps, Serve

(* The bound on the requests leaves an id to everybody who needs one.       *)
LEMMA IdsStep ==
    ASSUME TypeOK, IdsLeft, [Next]_vars
    PROVE  IdsLeft'
<1> USE ProgAssumption DEF ProgAssumption, Callers
<1>1. ASSUME NEW c \in Clients, NEW cmd \in {"get", "put"}, NEW i \in Ids,
             NEW o \in Outputs \cup {None},
             cmd = "put" => o \in Outputs, Begin(c, cmd, i, o)
      PROVE  IdsLeft'
  <2>1. IsFiniteSet(Registering) /\ Cardinality(Registering) \in Nat
    BY FS_Subset, FS_CardinalityType DEF Registering
  <2>2. Registering' = Registering \/ (c \notin Registering /\ Registering' = Registering \cup {c})
    BY <1>1 DEF Begin, Registering, IdsLeft, Step
  <2>3. Cardinality(Registering') <= Cardinality(Registering) + 1
    <3>1. CASE Registering' = Registering
      BY <2>1, <3>1
    <3>2. CASE c \notin Registering /\ Registering' = Registering \cup {c}
      <4>1. Cardinality(Registering \cup {c}) = Cardinality(Registering) + 1
        BY <2>1, <3>2, FS_AddElement
      <4> QED
        BY <2>1, <3>2, <4>1
    <3> QED
      BY <2>2, <3>1, <3>2
  <2>4. ~CloserDone
    BY <1>1 DEF Begin, CloserDone, IdsLeft
  <2>5. nextID + Cardinality(Registering) < MaxRequests - 1
    BY <1>1 DEF Begin, Registering, IdsLeft
  <2>6. IsFiniteSet(Registering') /\ Cardinality(Registering') \in Nat
    BY <2>1, <2>2, FS_AddElement, FS_CardinalityType
  <2>7. nextID' + Cardinality(Registering') + 1 <= MaxRequests
    BY <1>1, <2>1, <2>3, <2>5, <2>6 DEF Begin, IdsLeft, TypeOK
  <2> QED
    BY <1>1, <2>4, <2>7 DEF Begin, CloserDone, IdsLeft, closeVars, Step
<1>2. ASSUME NEW c \in Callers, Unable(c)
      PROVE  IdsLeft'
  <2>1. Registering' = Registering /\ CloserDone' = CloserDone
    BY <1>2 DEF Unable, Registering, CloserDone, IdsLeft, Step
  <2> QED
    BY <1>2, <2>1 DEF Unable, IdsLeft, closeVars, callVars, Step
<1>3. ASSUME NEW c \in Callers, Register(c)
      PROVE  IdsLeft'
  <2>1. IsFiniteSet(Registering) /\ Cardinality(Registering) \in Nat
    BY FS_Subset, FS_CardinalityType DEF Registering
  <2>2. CASE c \in Clients
    <3>1. c \in Registering /\ Registering' = Registering \ {c} /\ CloserDone' = CloserDone
      BY <1>3, <2>2 DEF Register, Registering, CloserDone, IdsLeft, Step, TypeOK
    <3>2. Cardinality(Registering') = Cardinality(Registering) - 1
      BY <2>1, <3>1, FS_RemoveElement
    <3> QED
      BY <1>3, <2>1, <2>2, <3>1, <3>2 DEF Register, NewID, IdsLeft, closeVars, Step, TypeOK
  <2>3. CASE c = Closer
    <3>1. Registering' = Registering /\ CloserDone' /\ ~CloserDone
      BY <1>3, <2>3 DEF Register, Registering, CloserDone, IdsLeft, Step, TypeOK
    <3> QED
      BY <1>3, <2>1, <2>3, <3>1 DEF Register, NewID, IdsLeft, closeVars, Step, TypeOK
  <2> QED
    BY <2>2, <2>3
<1>4. ASSUME NEW c \in Callers, LockWriter(c)
      PROVE  IdsLeft'
  <2>1. Registering' = Registering /\ CloserDone' = CloserDone
    BY <1>4 DEF LockWriter, Registering, CloserDone, IdsLeft, Step
  <2> QED
    BY <1>4, <2>1 DEF LockWriter, IdsLeft, closeVars, Step
<1>5. ASSUME NEW c \in Callers, Write(c)
      PROVE  IdsLeft'
  <2>1. Registering' = Registering /\ CloserDone' = CloserDone
    BY <1>5 DEF Write, Send, Registering, CloserDone, IdsLeft, Step
  <2> QED
    BY <1>5, <2>1 DEF Write, Send, IdsLeft, closeVars, Step
<1>6. ASSUME NEW c \in Callers, WriteBody(c)
      PROVE  IdsLeft'
  <2>1. Registering' = Registering /\ CloserDone' = CloserDone
    BY <1>6 DEF WriteBody, Send, Registering, CloserDone, IdsLeft, Step
  <2> QED
    BY <1>6, <2>1 DEF WriteBody, Send, IdsLeft, closeVars, Step
<1>7. ASSUME NEW c \in Callers, WriteFails(c)
      PROVE  IdsLeft'
  <2>1. Registering' = Registering /\ CloserDone' = CloserDone
    BY <1>7 DEF WriteFails, Registering, CloserDone, IdsLeft, Step, TypeOK
  <2> QED
    BY <1>7, <2>1 DEF WriteFails, IdsLeft, closeVars, Step, TypeOK
<1>8. ASSUME NEW c \in Callers, BodyErrorDropped(c)
      PROVE  IdsLeft'
  <2>1. Registering' = Registering /\ CloserDone' = CloserDone
    BY <1>8 DEF BodyErrorDropped, Registering, CloserDone, IdsLeft, Step
  <2>2. nextID' = nextID /\ closing' = closing
    BY <1>8 DEF BodyErrorDropped, closeVars
  <2>3. (pc[Closer] # "idle" /\ pc[Closer] # "starting") = (pc'[Closer] # "idle" /\ pc'[Closer] # "starting")
    BY <1>8 DEF BodyErrorDropped, Step, TypeOK
  <2> QED
    BY <2>1, <2>2, <2>3 DEF IdsLeft
<1>9. ASSUME NEW c \in Callers, Unregister(c)
      PROVE  IdsLeft'
  <2>1. Registering' = Registering /\ CloserDone' = CloserDone
    BY <1>9 DEF Unregister, Registering, CloserDone, IdsLeft, AfterCall, Step
  <2> QED
    BY <1>9, <2>1 DEF Unregister, IdsLeft, closeVars, TypeOK
<1>10. ASSUME NEW c \in Callers, Return(c)
      PROVE  IdsLeft'
  <2>1. Registering' = Registering /\ CloserDone' = CloserDone
    BY <1>10 DEF Return, Registering, CloserDone, IdsLeft, AfterCall, Step
  <2> QED
    BY <1>10, <2>1 DEF Return, IdsLeft, closeVars, callVars, Step
<1>11. CASE Started
  <2>1. Registering' = Registering /\ CloserDone' = CloserDone
    BY <1>11 DEF Started, Registering, CloserDone, IdsLeft, Step
  <2> QED
    BY <1>11, <2>1 DEF Started, IdsLeft, callVars, Step
<1>12. CASE BeginClose
  <2>1. IsFiniteSet(Registering) /\ Cardinality(Registering) \in Nat
    BY FS_Subset, FS_CardinalityType DEF Registering
  <2>2. Registering = {} /\ Registering' = {} /\ ~CloserDone
    BY <1>12 DEF BeginClose, Busy, Registering, CloserDone, IdsLeft, Step
  <2>3. nextID' + Cardinality(Registering') + 1 <= MaxRequests
    BY <1>12, <2>1, <2>2 DEF BeginClose, IdsLeft
  <2>4. closing' /\ nextID' + Cardinality(Registering') <= MaxRequests
    BY <1>12, <2>1, <2>2, <2>3 DEF BeginClose, IdsLeft, TypeOK
  <2> QED
    BY <1>12, <2>1, <2>2, <2>3, <2>4 DEF BeginClose, CloserDone, IdsLeft, TypeOK
<1>13. CASE Cancel
  <2>1. Registering' = Registering /\ CloserDone' = CloserDone
    BY <1>13 DEF Cancel, Registering, CloserDone, IdsLeft, Step
  <2> QED
    BY <1>13, <2>1 DEF Cancel, IdsLeft, callVars, Step
<1>14. CASE CloseStdin
  <2>1. Registering' = Registering /\ CloserDone' = CloserDone
    BY <1>14 DEF CloseStdin, Registering, CloserDone, IdsLeft
  <2> QED
    BY <1>14, <2>1 DEF CloseStdin, IdsLeft, callVars
<1>15. CASE Closed
  <2>1. Registering' = Registering /\ CloserDone' = CloserDone
    BY <1>15 DEF Closed, Registering, CloserDone, IdsLeft, Step
  <2> QED
    BY <1>15, <2>1 DEF Closed, IdsLeft, closeVars, callVars, Step
<1>16. CASE Deliver
  <2>1. Registering' = Registering /\ CloserDone' = CloserDone
    BY <1>16 DEF Deliver, Registering, CloserDone, IdsLeft
  <2> QED
    BY <1>16, <2>1 DEF Deliver, IdsLeft
<1>17. CASE EndOfAnswers
  <2>1. Registering' = Registering /\ CloserDone' = CloserDone
    BY <1>17 DEF EndOfAnswers, Registering, CloserDone, IdsLeft
  <2> QED
    BY <1>17, <2>1 DEF EndOfAnswers, IdsLeft, callVars
<1>18. CASE ReadRequest
  <2>1. Registering' = Registering /\ CloserDone' = CloserDone
    BY <1>18 DEF ReadRequest, Registering, CloserDone, IdsLeft
  <2> QED
    BY <1>18, <2>1 DEF ReadRequest, IdsLeft, closeVars, callVars
<1>19. CASE ChildExits
  <2>1. Registering' = Registering /\ CloserDone' = CloserDone
    BY <1>19 DEF ChildExits, ChildGone, Registering, CloserDone, IdsLeft
  <2> QED
    BY <1>19, <2>1 DEF ChildExits, ChildGone, IdsLeft, closeVars, callVars
<1>20. CASE ChildDies
  <2>1. Registering' = Registering /\ CloserDone' = CloserDone
    BY <1>20 DEF ChildDies, ChildGone, Registering, CloserDone, IdsLeft
  <2> QED
    BY <1>20, <2>1 DEF ChildDies, ChildGone, IdsLeft, closeVars, callVars
<1>21. CASE ChildLeaves
  <2>1. Registering' = Registering /\ CloserDone' = CloserDone
    BY <1>21 DEF ChildLeaves, ChildGone, Registering, CloserDone, IdsLeft
  <2> QED
    BY <1>21, <2>1 DEF ChildLeaves, ChildGone, IdsLeft, closeVars, callVars
<1>22. ASSUME NEW r \in pending, AnswerRequest(r)
      PROVE  IdsLeft'
  <2>1. Registering' = Registering /\ CloserDone' = CloserDone
    BY <1>22 DEF AnswerRequest, Registering, CloserDone, IdsLeft
  <2> QED
    BY <1>22, <2>1 DEF AnswerRequest, IdsLeft, closeVars, callVars
<1>23. ASSUME NEW i \in Ids, Evict(i)
      PROVE  IdsLeft'
  <2>1. Registering' = Registering /\ CloserDone' = CloserDone
    BY <1>23 DEF Evict, Registering, CloserDone, IdsLeft
  <2> QED
    BY <1>23, <2>1 DEF Evict, IdsLeft, closeVars, callVars
<1>24. CASE UNCHANGED vars
  <2>1. Registering' = Registering /\ CloserDone' = CloserDone
    BY <1>24 DEF vars, Registering, CloserDone, IdsLeft
  <2> QED
    BY <1>24, <2>1 DEF vars, IdsLeft, closeVars, callVars
<1> QED
  BY <1>1, <1>2, <1>3, <1>4, <1>5, <1>6, <1>7, <1>8, <1>9, <1>10, <1>11, <1>12, <1>13, <1>14,
     <1>15, <1>16, <1>17, <1>18, <1>19, <1>20, <1>21, <1>22, <1>23, <1>24 DEF Next, Steps,
     CloserSteps, Serve

(* A channel is registered, or has its answer, or belongs to no request.   *)
LEMMA ChannelStep ==
    ASSUME TypeOK, IdsLeft, Phases, Channels, Timely, [Next]_vars
    PROVE  Channels'
<1> USE ProgAssumption DEF ProgAssumption, Callers
<1>1. ASSUME NEW c \in Clients, NEW cmd \in {"get", "put"}, NEW i \in Ids,
             NEW o \in Outputs \cup {None},
             cmd = "put" => o \in Outputs, Begin(c, cmd, i, o)
      PROVE  Channels'
  BY <1>1 DEF Begin, Busy, Timely, Asked, IdOf, Registered, ChannelOf, Channels, Step
<1>2. ASSUME NEW c \in Callers, Unable(c)
      PROVE  Channels'
  BY <1>2 DEF Unable, Timely, Asked, callVars, IdOf, Registered, ChannelOf, Channels, Step
<1>3. ASSUME NEW c \in Callers, Register(c)
      PROVE  Channels'
  <2>1. nextID + 1 \in 1..MaxRequests
    BY <1>3, IdLeft DEF Register, Timely, Asked, Step
  <2>2. resc[c] = None /\ \A n \in 0..MaxRequests : inFlight[n] # c
    BY <1>3 DEF Register, Timely, Asked, ChannelOf, Channels, Step
  <2>3. inFlight[nextID + 1] = None
    BY <2>1 DEF IdOf, Channels, TypeOK
  <2>4. /\ nextID' = nextID + 1 /\ inFlight' = [inFlight EXCEPT ![nextID + 1] = c]
        /\ pc' = [pc EXCEPT ![c] = "lock"] /\ call'[c].id = nextID + 1
        /\ \A d \in Callers \ {c} : call'[d] = call[d]
        /\ resc' = resc
    BY <1>3 DEF Register, NewID, Timely, Asked, Step, TypeOK
  <2>5. ASSUME NEW n \in 0..MaxRequests
        PROVE  IdOf(n)'
    <3>1. CASE n = nextID + 1
      BY <2>1, <2>4, <3>1 DEF IdOf, TypeOK
    <3>2. CASE n # nextID + 1
      <4>1. inFlight'[n] = inFlight[n] /\ inFlight[n] # c
        BY <2>1, <2>2, <2>4, <3>2
      <4>2. IdOf(n)
        BY DEF Channels
      <4> QED
        BY <2>1, <2>4, <4>1, <4>2 DEF IdOf, TypeOK
    <3> QED
      BY <3>1, <3>2
  <2>6. ASSUME NEW d \in Callers
        PROVE  ChannelOf(d)'
    <3>1. CASE d = c
      BY <2>1, <2>2, <2>4, <3>1 DEF Registered, ChannelOf, TypeOK
    <3>2. CASE d # c
      <4>1. call[d].id \in 0..MaxRequests /\ call'[d] = call[d] /\ pc'[d] = pc[d] /\ resc'[d] = resc[d]
        BY <2>4, <3>2 DEF Requests, TypeOK
      <4>2. \A n \in 0..MaxRequests : inFlight'[n] = d <=> inFlight[n] = d
        BY <2>1, <2>3, <2>4, <3>2
      <4>3. ChannelOf(d)
        BY DEF Channels
      <4> QED
        BY <4>1, <4>2, <4>3 DEF Registered, ChannelOf
    <3> QED
      BY <3>1, <3>2
  <2> QED
    BY <2>5, <2>6 DEF Channels
<1>4. ASSUME NEW c \in Callers, LockWriter(c)
      PROVE  Channels'
  BY <1>4 DEF LockWriter, MayWrite, Timely, Asked, Requests, IdOf, Registered, ChannelOf,
     Channels, Step
<1>5. ASSUME NEW c \in Callers, Write(c)
      PROVE  Channels'
  BY <1>5 DEF Write, Send, Timely, Asked, IdOf, Registered, ChannelOf, Channels, Step
<1>6. ASSUME NEW c \in Callers, WriteBody(c)
      PROVE  Channels'
  BY <1>6 DEF WriteBody, Send, Timely, Asked, IdOf, Registered, ChannelOf, Channels, Step
<1>7. ASSUME NEW c \in Callers, WriteFails(c)
      PROVE  Channels'
  BY <1>7 DEF WriteFails, Timely, Asked, IdOf, Registered, ChannelOf, Channels, Step, TypeOK
<1>8. ASSUME NEW c \in Callers, BodyErrorDropped(c)
      PROVE  Channels'
  BY <1>8 DEF BodyErrorDropped, Timely, Asked, IdOf, Registered, ChannelOf, Channels, Step
<1>9. ASSUME NEW c \in Callers, Unregister(c)
      PROVE  Channels'
  BY <1>9 DEF Unregister, Timely, Asked, IdOf, Registered, ChannelOf, Channels, AfterCall, Step,
     TypeOK
<1>10. ASSUME NEW c \in Callers, Return(c)
      PROVE  Channels'
  BY <1>10 DEF Return, Timely, Asked, callVars, Requests, IdOf, Registered, ChannelOf, Channels,
     AfterCall, NotFound, Step, TypeOK
<1>11. CASE Started
  BY <1>11 DEF Started, callVars, IdOf, Registered, ChannelOf, Channels, Step, TypeOK
<1>12. CASE BeginClose
  BY <1>12 DEF BeginClose, Busy, Timely, Asked, IdOf, ChannelOf, Channels, Step
<1>13. CASE Cancel
  BY <1>13 DEF Cancel, Timely, Asked, callVars, IdOf, Registered, ChannelOf, Channels, Step
<1>14. CASE CloseStdin
  BY <1>14 DEF CloseStdin, Timely, Asked, callVars, IdOf, Registered, ChannelOf, Channels
<1>15. CASE Closed
  BY <1>15 DEF Closed, Timely, Asked, callVars, IdOf, Registered, ChannelOf, Channels, Step
<1>16. CASE Deliver
  <2> DEFINE n == Head(stdout).id
             w == inFlight[n]
  <2>1. /\ stdout # <<>> /\ UNCHANGED <<pc, call, nextID>>
        /\ \/ /\ w # None /\ resc' = [resc EXCEPT ![w] = Head(stdout)]
              /\ inFlight' = [inFlight EXCEPT ![n] = None]
           \/ w = None /\ UNCHANGED <<resc, inFlight>>
    BY <1>16 DEF Deliver
  <2>2. Head(stdout) = stdout[1] /\ 1 \in DOMAIN stdout /\ Head(stdout) \in Answers
    <3>1. stdout \in Seq(Answers)
      BY DEF TypeOK
    <3> QED
      BY <2>1, <3>1, Shifted
  <2>3. Asked(n) /\ Head(stdout) # None /\ n \in 0..MaxRequests
    BY <2>2, NoneAssumption DEF Timely, Answers
  <2> HIDE DEF n
  <2>4. CASE w = None
    <3>1. UNCHANGED <<pc, call, nextID, resc, inFlight>>
      BY <2>1, <2>4
    <3> QED
      BY <3>1 DEF IdOf, Registered, ChannelOf, Channels
  <2>5. CASE w # None
    <3>1. w \in Callers /\ call[w].id = n /\ pc[w] \in {"await", "starting"}
      BY <2>3, <2>5 DEF Asked, IdOf, Channels, TypeOK
    <3>2. resc[w] = None
      BY <3>1 DEF Registered, ChannelOf, Channels
    <3>3. /\ resc' = [resc EXCEPT ![w] = Head(stdout)] /\ inFlight' = [inFlight EXCEPT ![n] = None]
          /\ UNCHANGED <<pc, call, nextID>>
      BY <2>1, <2>5
    <3>4. \A m \in 0..MaxRequests : inFlight'[m] = IF m = n THEN None ELSE inFlight[m]
      BY <2>3, <3>3 DEF TypeOK
    <3>5. ASSUME NEW d \in Callers
          PROVE  ChannelOf(d)'
      <4>1. CASE d = w
        <5>1. resc'[w] = Head(stdout)
          BY <3>1, <3>3 DEF TypeOK
        <5>2. inFlight'[n] # w
          BY <2>3, <2>5, <3>4
        <5> QED
          BY <2>3, <3>1, <3>3, <4>1, <5>1, <5>2 DEF Registered, ChannelOf
      <4>2. CASE d # w
        <5>1. resc'[d] = resc[d] /\ call[d].id \in 0..MaxRequests
          BY <3>3, <4>2 DEF Requests, TypeOK
        <5>2. \A m \in 0..MaxRequests : inFlight'[m] = d <=> inFlight[m] = d
          BY <3>4, <4>2
        <5>3. ChannelOf(d)
          BY DEF Channels
        <5> QED
          BY <3>3, <5>1, <5>2, <5>3 DEF Registered, ChannelOf
      <4> QED
        BY <4>1, <4>2
    <3>6. ASSUME NEW m \in 0..MaxRequests
          PROVE  IdOf(m)'
      BY <3>3, <3>4 DEF IdOf, Channels
    <3> QED
      BY <3>5, <3>6 DEF Channels
  <2> QED
    BY <2>4, <2>5
<1>17. CASE EndOfAnswers
  BY <1>17 DEF EndOfAnswers, Looping, QuietEnd, Timely, Asked, callVars, Answers, IdOf,
     Registered, ChannelOf, Channels
<1>18. CASE ReadRequest
  BY <1>18 DEF ReadRequest, Timely, Asked, callVars, IdOf, Registered, ChannelOf, Channels
<1>19. CASE ChildExits
  BY <1>19 DEF ChildExits, ChildGone, Timely, Asked, callVars, IdOf, Registered, ChannelOf,
     Channels
<1>20. CASE ChildDies
  BY <1>20 DEF ChildDies, ChildGone, Timely, Asked, callVars, IdOf, Registered, ChannelOf,
     Channels
<1>21. CASE ChildLeaves
  BY <1>21 DEF ChildLeaves, ChildGone, Timely, Asked, callVars, IdOf, Registered, ChannelOf,
     Channels
<1>22. ASSUME NEW r \in pending, AnswerRequest(r)
      PROVE  Channels'
  BY <1>22 DEF AnswerRequest, Stored, Timely, Asked, callVars, IdOf, Registered, ChannelOf,
     Channels
<1>23. ASSUME NEW i \in Ids, Evict(i)
      PROVE  Channels'
  BY <1>23 DEF Evict, Timely, Asked, callVars, IdOf, Registered, ChannelOf, Channels
<1>24. CASE UNCHANGED vars
  BY <1>24 DEF vars, Timely, Asked, callVars, IdOf, Registered, ChannelOf, Channels
<1> QED
  BY <1>1, <1>2, <1>3, <1>4, <1>5, <1>6, <1>7, <1>8, <1>9, <1>10, <1>11, <1>12, <1>13, <1>14,
     <1>15, <1>16, <1>17, <1>18, <1>19, <1>20, <1>21, <1>22, <1>23, <1>24 DEF Next, Steps,
     CloserSteps, Serve

(* Every message has an id that may have been given out. *)
LEMMA MessageIds ==
    ASSUME TypeOK
    PROVE  /\ \A k \in DOMAIN stdin : stdin[k][1].id \in 0..MaxRequests
           /\ \A r \in pending : r.id \in 0..MaxRequests
           /\ \A k \in DOMAIN stdout : stdout[k].id \in 0..MaxRequests
<1>1. \A k \in DOMAIN stdin : stdin[k] \in Requests \X {"head", "body"}
  BY DEF TypeOK
<1>2. \A k \in DOMAIN stdout : stdout[k] \in Answers
  BY DEF TypeOK
<1> QED
  BY <1>1, <1>2 DEF Answers, Requests, TypeOK

(* What the child has in full was written in full.                         *)
LEMMA TimelyStep ==
    ASSUME TypeOK, IdsLeft, Formed, Phases, Channels, Timely, [Next]_vars
    PROVE  Timely'
<1> USE ProgAssumption DEF ProgAssumption, Callers
<1>0. TypeOK'
  BY TypeStep
<1>1. ASSUME NEW c \in Clients, NEW cmd \in {"get", "put"}, NEW i \in Ids,
             NEW o \in Outputs \cup {None},
             cmd = "put" => o \in Outputs, Begin(c, cmd, i, o)
      PROVE  Timely'
  <2>1. \A n \in 0..MaxRequests : Asked(n) => Asked(n)'
    BY <1>1 DEF Begin, Asked, Step
  <2>2. UNCHANGED <<stdin, pending, stdout>>
    BY <1>1 DEF Begin, childVars
  <2> QED
    BY <2>1, <2>2, MessageIds DEF Timely
<1>2. ASSUME NEW c \in Callers, Unable(c)
      PROVE  Timely'
  <2>1. \A n \in 0..MaxRequests : Asked(n) => Asked(n)'
    BY <1>2 DEF Unable, Asked, callVars, Step
  <2>2. UNCHANGED <<stdin, pending, stdout>>
    BY <1>2 DEF Unable, childVars
  <2> QED
    BY <2>1, <2>2, MessageIds DEF Timely
<1>3. ASSUME NEW c \in Callers, Register(c)
      PROVE  Timely'
  <2>1. nextID + 1 \in 1..MaxRequests
    BY <1>3, IdLeft DEF Register, Step
  <2>2. \A n \in 0..MaxRequests : Asked(n) => Asked(n)'
    BY <1>3, <2>1 DEF Register, NewID, Asked, Step, TypeOK
  <2>3. UNCHANGED <<stdin, pending, stdout>>
    BY <1>3 DEF Register, childVars
  <2> QED
    BY <2>2, <2>3, MessageIds DEF Timely
<1>4. ASSUME NEW c \in Callers, LockWriter(c)
      PROVE  Timely'
  <2>1. \A n \in 0..MaxRequests : Asked(n) => Asked(n)'
    BY <1>4 DEF LockWriter, MayWrite, Asked, Step
  <2>2. UNCHANGED <<stdin, pending, stdout>>
    BY <1>4 DEF LockWriter, MayWrite, childVars
  <2> QED
    BY <2>1, <2>2, MessageIds DEF Timely
<1>5. ASSUME NEW c \in Callers, Write(c)
      PROVE  Timely'
  <2>1. \A n \in 0..MaxRequests : Asked(n) => Asked(n)'
    BY <1>5 DEF Write, Send, Asked, Step
  <2>2. /\ <<call[c], "head">> \in Requests \X {"head", "body"}
        /\ stdin \in Seq(Requests \X {"head", "body"}) /\ stdin' = Append(stdin, <<call[c], "head">>)
    BY <1>5 DEF Write, Send, TypeOK
  <2>3. Whole(<<call[c], "head">>) => \A n : n = call[c].id => Asked(n)'
    BY <1>5 DEF Write, Send, Asked, Whole, Requests, IdOf, Registered, ChannelOf, Channels,
       Step, TypeOK
  <2>4. \A k \in DOMAIN stdin', n \in 0..MaxRequests :
           Whole(stdin'[k]) /\ n = stdin'[k][1].id => Asked(n)'
    <3>1. /\ DOMAIN stdin' = 1..(Len(stdin) + 1) /\ Len(stdin) \in Nat /\ DOMAIN stdin = 1..Len(stdin)
          /\ \A k \in 1..Len(stdin) : stdin'[k] = stdin[k]
          /\ stdin'[Len(stdin) + 1] = <<call[c], "head">>
      BY <2>2, Appended
    <3>2. ASSUME NEW k \in 1..Len(stdin), Whole(stdin[k]), NEW n, n = stdin[k][1].id
          PROVE  Asked(n)'
      BY <2>1, <3>1, <3>2, MessageIds DEF Timely
    <3>3. <<call[c], "head">>[1].id = call[c].id
      OBVIOUS
    <3> SUFFICES ASSUME NEW k \in DOMAIN stdin', NEW n \in 0..MaxRequests,
                        Whole(stdin'[k]), n = stdin'[k][1].id
                 PROVE  Asked(n)'
      OBVIOUS
    <3>4. CASE k \in 1..Len(stdin)
      <4>1. stdin'[k] = stdin[k]
        BY <3>1, <3>4
      <4> QED
        BY <3>2, <3>4, <4>1
    <3>5. CASE k = Len(stdin) + 1
      <4>1. stdin'[k] = <<call[c], "head">>
        BY <3>1, <3>5
      <4> QED
        BY <2>3, <3>3, <4>1
    <3> QED
      BY <3>1, <3>4, <3>5
  <2>5. UNCHANGED <<pending, stdout>>
    BY <1>5 DEF Write, Send, childVars
  <2>6. \A k \in DOMAIN stdin' : stdin'[k][1].id \in 0..MaxRequests
    <3>1. \A k \in DOMAIN stdin' : stdin'[k] \in Requests \X {"head", "body"}
      BY <1>0 DEF TypeOK
    <3> QED
      BY <3>1 DEF Requests
  <2> QED
    BY <2>1, <2>4, <2>5, <2>6, MessageIds DEF Timely
<1>6. ASSUME NEW c \in Callers, WriteBody(c)
      PROVE  Timely'
  <2>1. \A n \in 0..MaxRequests : Asked(n) => Asked(n)'
    BY <1>6 DEF WriteBody, Send, Asked, Step
  <2>2. /\ <<call[c], "body">> \in Requests \X {"head", "body"}
        /\ stdin \in Seq(Requests \X {"head", "body"}) /\ stdin' = Append(stdin, <<call[c], "body">>)
    BY <1>6 DEF WriteBody, Send, TypeOK
  <2>3. Whole(<<call[c], "body">>) => \A n : n = call[c].id => Asked(n)'
    BY <1>6 DEF WriteBody, Send, Asked, Whole, Requests, IdOf, Registered, ChannelOf, Channels,
       Step, TypeOK
  <2>4. \A k \in DOMAIN stdin', n \in 0..MaxRequests :
           Whole(stdin'[k]) /\ n = stdin'[k][1].id => Asked(n)'
    <3>1. /\ DOMAIN stdin' = 1..(Len(stdin) + 1) /\ Len(stdin) \in Nat /\ DOMAIN stdin = 1..Len(stdin)
          /\ \A k \in 1..Len(stdin) : stdin'[k] = stdin[k]
          /\ stdin'[Len(stdin) + 1] = <<call[c], "body">>
      BY <2>2, Appended
    <3>2. ASSUME NEW k \in 1..Len(stdin), Whole(stdin[k]), NEW n, n = stdin[k][1].id
          PROVE  Asked(n)'
      BY <2>1, <3>1, <3>2, MessageIds DEF Timely
    <3>3. <<call[c], "body">>[1].id = call[c].id
      OBVIOUS
    <3> SUFFICES ASSUME NEW k \in DOMAIN stdin', NEW n \in 0..MaxRequests,
                        Whole(stdin'[k]), n = stdin'[k][1].id
                 PROVE  Asked(n)'
      OBVIOUS
    <3>4. CASE k \in 1..Len(stdin)
      <4>1. stdin'[k] = stdin[k]
        BY <3>1, <3>4
      <4> QED
        BY <3>2, <3>4, <4>1
    <3>5. CASE k = Len(stdin) + 1
      <4>1. stdin'[k] = <<call[c], "body">>
        BY <3>1, <3>5
      <4> QED
        BY <2>3, <3>3, <4>1
    <3> QED
      BY <3>1, <3>4, <3>5
  <2>5. UNCHANGED <<pending, stdout>>
    BY <1>6 DEF WriteBody, Send, childVars
  <2>6. \A k \in DOMAIN stdin' : stdin'[k][1].id \in 0..MaxRequests
    <3>1. \A k \in DOMAIN stdin' : stdin'[k] \in Requests \X {"head", "body"}
      BY <1>0 DEF TypeOK
    <3> QED
      BY <3>1 DEF Requests
  <2> QED
    BY <2>1, <2>4, <2>5, <2>6, MessageIds DEF Timely
<1>7. ASSUME NEW c \in Callers, WriteFails(c)
      PROVE  Timely'
  <2>1. \A n \in 0..MaxRequests : Asked(n) => Asked(n)'
    BY <1>7 DEF WriteFails, Asked, Step, TypeOK
  <2>2. UNCHANGED <<stdin, pending, stdout>>
    BY <1>7 DEF WriteFails, childVars
  <2> QED
    BY <2>1, <2>2, MessageIds DEF Timely
<1>8. ASSUME NEW c \in Callers, BodyErrorDropped(c)
      PROVE  Timely'
  <2>1. \A n \in 0..MaxRequests : Asked(n) => Asked(n)'
    BY <1>8 DEF BodyErrorDropped, Asked, Step
  <2>2. UNCHANGED <<stdin, pending, stdout>>
    BY <1>8 DEF BodyErrorDropped, childVars
  <2> QED
    BY <2>1, <2>2, MessageIds DEF Timely
<1>9. ASSUME NEW c \in Callers, Unregister(c)
      PROVE  Timely'
  <2>1. \A n \in 0..MaxRequests : Asked(n) => Asked(n)'
    BY <1>9 DEF Unregister, Asked, Step
  <2>2. UNCHANGED <<stdin, pending, stdout>>
    BY <1>9 DEF Unregister, childVars
  <2> QED
    BY <2>1, <2>2, MessageIds DEF Timely
<1>10. ASSUME NEW c \in Callers, Return(c)
      PROVE  Timely'
  <2>1. \A n \in 0..MaxRequests : Asked(n) => Asked(n)'
    BY <1>10 DEF Return, Asked, callVars, IdOf, Registered, ChannelOf, Channels, Phases,
       AfterCall, Step
  <2>2. UNCHANGED <<stdin, pending, stdout>>
    BY <1>10 DEF Return, childVars
  <2> QED
    BY <2>1, <2>2, MessageIds DEF Timely
<1>11. CASE Started
  <2>1. \A n \in 0..MaxRequests : Asked(n) => Asked(n)'
    BY <1>11 DEF Started, Asked, callVars, IdOf, Registered, ChannelOf, Channels, Step
  <2>2. UNCHANGED <<stdin, pending, stdout>>
    BY <1>11 DEF Started, childVars
  <2> QED
    BY <2>1, <2>2, MessageIds DEF Timely
<1>12. CASE BeginClose
  <2>1. \A n \in 0..MaxRequests : Asked(n) => Asked(n)'
    BY <1>12 DEF BeginClose, Asked, Step
  <2>2. UNCHANGED <<stdin, pending, stdout>>
    BY <1>12 DEF BeginClose, childVars
  <2> QED
    BY <2>1, <2>2, MessageIds DEF Timely
<1>13. CASE Cancel
  <2>1. \A n \in 0..MaxRequests : Asked(n) => Asked(n)'
    BY <1>13 DEF Cancel, Asked, callVars, Step, TypeOK
  <2>2. UNCHANGED <<stdin, pending, stdout>>
    BY <1>13 DEF Cancel, childVars
  <2> QED
    BY <2>1, <2>2, MessageIds DEF Timely
<1>14. CASE CloseStdin
  <2>1. \A n \in 0..MaxRequests : Asked(n) => Asked(n)'
    BY <1>14 DEF CloseStdin, Asked, callVars
  <2>2. UNCHANGED <<stdin, pending, stdout>>
    BY <1>14 DEF CloseStdin, childVars
  <2> QED
    BY <2>1, <2>2, MessageIds DEF Timely
<1>15. CASE Closed
  <2>1. \A n \in 0..MaxRequests : Asked(n) => Asked(n)'
    BY <1>15 DEF Closed, Asked, callVars, Step
  <2>2. UNCHANGED <<stdin, pending, stdout>>
    BY <1>15 DEF Closed, childVars
  <2> QED
    BY <2>1, <2>2, MessageIds DEF Timely
<1>16. CASE Deliver
  <2>1. \A n \in 0..MaxRequests : Asked(n) => Asked(n)'
    <3>1. inFlight' = inFlight \/ inFlight' = [inFlight EXCEPT ![Head(stdout).id] = None]
      BY <1>16 DEF Deliver
    <3>2. \A n \in 0..MaxRequests : inFlight'[n] = inFlight[n] \/ inFlight'[n] = None
      BY ZenonT(60), <3>1 DEF TypeOK
    <3> QED
      BY <1>16, <3>2 DEF Deliver, Asked
  <2>2. \A k \in DOMAIN stdout' : k + 1 \in DOMAIN stdout /\ stdout'[k] = stdout[k + 1]
      BY <1>16, Shifted DEF Deliver
  <2>3. UNCHANGED <<stdin, pending>>
    BY <1>16 DEF Deliver, childVars
  <2> QED
    BY <2>1, <2>2, <2>3, MessageIds DEF Timely
<1>17. CASE EndOfAnswers
  <2>1. \A n \in 0..MaxRequests : Asked(n) => Asked(n)'
    BY <1>17 DEF EndOfAnswers, Asked, callVars
  <2>2. UNCHANGED <<stdin, pending, stdout>>
    BY <1>17 DEF EndOfAnswers, childVars
  <2> QED
    BY <2>1, <2>2, MessageIds DEF Timely
<1>18. CASE ReadRequest
  <2>1. \A n \in 0..MaxRequests : Asked(n) => Asked(n)'
    BY <1>18 DEF ReadRequest, Asked, callVars
  <2>2. /\ \A k \in DOMAIN stdin' : k + 1 \in DOMAIN stdin /\ stdin'[k] = stdin[k + 1]
        /\ 1 \in DOMAIN stdin /\ Head(stdin) = stdin[1] /\ Head(stdin) \in Requests \X {"head", "body"}
      BY <1>18, Shifted DEF ReadRequest, TypeOK
  <2>3. pending' = pending \/ (pending' = pending \cup {stdin[1][1]} /\ Whole(stdin[1]))
    BY <1>18, <2>2 DEF ReadRequest, Whole
  <2>4. \A r \in pending' : Asked(r.id)'
    BY <2>1, <2>2, <2>3, MessageIds DEF Timely
  <2>5. UNCHANGED stdout
    BY <1>18 DEF ReadRequest
  <2> QED
    BY <2>1, <2>2, <2>4, <2>5, MessageIds DEF Timely
<1>19. CASE ChildExits
  <2>1. \A n \in 0..MaxRequests : Asked(n) => Asked(n)'
    BY <1>19 DEF ChildExits, ChildGone, Asked, callVars
  <2>2. stdin' = <<>> /\ pending' = {} /\ stdout' = stdout
    BY <1>19 DEF ChildExits, ChildGone
  <2> QED
    BY <2>1, <2>2, MessageIds DEF Timely
<1>20. CASE ChildDies
  <2>1. \A n \in 0..MaxRequests : Asked(n) => Asked(n)'
    BY <1>20 DEF ChildDies, ChildGone, Asked, callVars
  <2>2. stdin' = <<>> /\ pending' = {} /\ stdout' = stdout
    BY <1>20 DEF ChildDies, ChildGone
  <2> QED
    BY <2>1, <2>2, MessageIds DEF Timely
<1>21. CASE ChildLeaves
  <2>1. \A n \in 0..MaxRequests : Asked(n) => Asked(n)'
    BY <1>21 DEF ChildLeaves, ChildGone, Asked, callVars
  <2>2. stdin' = <<>> /\ pending' = {} /\ stdout' = stdout
    BY <1>21 DEF ChildLeaves, ChildGone
  <2> QED
    BY <2>1, <2>2, MessageIds DEF Timely
<1>22. ASSUME NEW r \in pending, AnswerRequest(r)
      PROVE  Timely'
  <2>1. \A n \in 0..MaxRequests : Asked(n) => Asked(n)'
    BY <1>22 DEF AnswerRequest, Asked, callVars
  <2>2. PICK out \in Outputs \cup {Miss} : stdout' = Append(stdout, [id |-> r.id, out |-> out])
    <3>1. r.cmd = "get" => store[r.key] \in Outputs \cup {None}
      BY <1>22 DEF WellFormed, Formed, TypeOK
    <3>2. r.cmd = "get" => Stored(r) \in Outputs \cup {Miss}
      BY <3>1 DEF Stored
    <3>3. \E out \in {Miss} \cup (IF r.cmd = "get" THEN {Stored(r)} ELSE {}) :
             stdout' = Append(stdout, [id |-> r.id, out |-> out])
      BY <1>22 DEF AnswerRequest
    <3> QED
      BY <3>2, <3>3
  <2>3. \A k \in DOMAIN stdout', n \in 0..MaxRequests : n = stdout'[k].id => Asked(n)'
    <3>1. [id |-> r.id, out |-> out] \in Answers
      BY <2>2, MessageIds DEF Answers
    <3>2. /\ DOMAIN stdout' = 1..(Len(stdout) + 1) /\ Len(stdout) \in Nat /\ DOMAIN stdout = 1..Len(stdout)
          /\ \A k \in 1..Len(stdout) : stdout'[k] = stdout[k]
          /\ stdout'[Len(stdout) + 1] = [id |-> r.id, out |-> out]
      <4>1. stdout \in Seq(Answers)
        BY DEF TypeOK
      <4> QED
        BY <2>2, <3>1, <4>1, Appended
    <3>3. \A n : n = r.id => Asked(n)'
      BY <2>1, MessageIds DEF Timely
    <3>4. ASSUME NEW k \in 1..Len(stdout), NEW n, n = stdout[k].id
          PROVE  Asked(n)'
      BY <2>1, <3>2, <3>4, MessageIds DEF Timely
    <3> SUFFICES ASSUME NEW k \in DOMAIN stdout', NEW n \in 0..MaxRequests, n = stdout'[k].id
                 PROVE  Asked(n)'
      OBVIOUS
    <3>5. CASE k \in 1..Len(stdout)
      <4>1. stdout'[k] = stdout[k]
        BY <3>2, <3>5
      <4> QED
        BY <3>4, <3>5, <4>1
    <3>6. CASE k = Len(stdout) + 1
      <4>1. stdout'[k].id = r.id
        BY <3>2, <3>6
      <4> QED
        BY <3>3, <4>1
    <3> QED
      BY <3>2, <3>5, <3>6
  <2>4. UNCHANGED stdin /\ pending' \subseteq pending
    BY <1>22 DEF AnswerRequest
  <2>5. \A k \in DOMAIN stdout' : stdout'[k].id \in 0..MaxRequests
    <3>1. \A k \in DOMAIN stdout' : stdout'[k] \in Answers
      BY <1>0 DEF TypeOK
    <3> QED
      BY <3>1 DEF Answers
  <2> QED
    BY <2>1, <2>3, <2>4, <2>5, MessageIds DEF Timely
<1>23. ASSUME NEW i \in Ids, Evict(i)
      PROVE  Timely'
  <2>1. \A n \in 0..MaxRequests : Asked(n) => Asked(n)'
    BY <1>23 DEF Evict, Asked, callVars
  <2>2. UNCHANGED <<stdin, pending, stdout>>
    BY <1>23 DEF Evict
  <2> QED
    BY <2>1, <2>2, MessageIds DEF Timely
<1>24. CASE UNCHANGED vars
  <2>1. \A n \in 0..MaxRequests : Asked(n) => Asked(n)'
    BY <1>24 DEF vars, Asked, callVars
  <2>2. UNCHANGED <<stdin, pending, stdout>>
    BY <1>24 DEF vars, childVars
  <2> QED
    BY <2>1, <2>2, MessageIds DEF Timely
<1> QED
  BY <1>1, <1>2, <1>3, <1>4, <1>5, <1>6, <1>7, <1>8, <1>9, <1>10, <1>11, <1>12, <1>13, <1>14,
     <1>15, <1>16, <1>17, <1>18, <1>19, <1>20, <1>21, <1>22, <1>23, <1>24 DEF Next, Steps,
     CloserSteps, Serve

(* Heads and bodies keep together.                                         *)
LEMMA FrameStep ==
    ASSUME TypeOK, Phases, Framed, [Next]_vars
    PROVE  Framed'
<1> USE ProgAssumption DEF ProgAssumption, Callers
<1>1. ASSUME NEW c \in Clients, NEW cmd \in {"get", "put"}, NEW i \in Ids,
             NEW o \in Outputs \cup {None},
             cmd = "put" => o \in Outputs, Begin(c, cmd, i, o)
      PROVE  Framed'
  BY <1>1 DEF Begin, Busy, childVars, closeVars, HeadRead, BodyDue, HeadAt, BodyAt, Unfinished,
     Connected, Framed, Step
<1>2. ASSUME NEW c \in Callers, Unable(c)
      PROVE  Framed'
  BY <1>2 DEF Unable, childVars, closeVars, callVars, HeadRead, BodyDue, HeadAt, BodyAt,
     Unfinished, Connected, Framed, Step
<1>3. ASSUME NEW c \in Callers, Register(c)
      PROVE  Framed'
  BY <1>3 DEF Register, NewID, childVars, closeVars, HeadRead, BodyDue, HeadAt, BodyAt,
     Unfinished, Connected, Framed, Step
<1>4. ASSUME NEW c \in Callers, LockWriter(c)
      PROVE  Framed'
  BY <1>4 DEF LockWriter, MayWrite, childVars, closeVars, HeadRead, BodyDue, HeadAt, BodyAt,
     Unfinished, Connected, Framed, Step
<1>5. ASSUME NEW c \in Callers, Write(c)
      PROVE  Framed'
  <2>1. /\ Connected /\ Connected' /\ writeMu = c /\ head' = head /\ call' = call
        /\ pc' = [pc EXCEPT ![c] = IF call[c].cmd = "put" THEN "body" ELSE "await"]
        /\ writeMu' = IF call[c].cmd = "put" THEN c ELSE None
        /\ <<call[c], "head">> \in Requests \X {"head", "body"}
        /\ stdin \in Seq(Requests \X {"head", "body"}) /\ stdin' = Append(stdin, <<call[c], "head">>)
    BY <1>5 DEF Write, Send, childVars, closeVars, Connected, Phases, Step, TypeOK
  <2>2. /\ DOMAIN stdin' = 1..(Len(stdin) + 1) /\ Len(stdin) \in Nat /\ DOMAIN stdin = 1..Len(stdin)
        /\ \A k \in 1..Len(stdin) : stdin'[k] = stdin[k]
        /\ stdin'[Len(stdin) + 1] = <<call[c], "head">>
        /\ stdin' # <<>> /\ Len(stdin') = Len(stdin) + 1 /\ (stdin = <<>> <=> Len(stdin) = 0)
      BY <2>1, Appended
  <2>3. \A d \in Callers : pc[d] # "body"
    BY <1>5, <2>1 DEF Write, Send, Phases, Step
  <2>4. /\ head # None => stdin # <<>>
        /\ \A k \in DOMAIN stdin : Opens(stdin[k]) => k # Len(stdin)
    BY <2>1, <2>2, <2>3 DEF HeadRead, HeadAt, Unfinished, Framed
  <2>5. ASSUME NEW k \in DOMAIN stdin'
        PROVE  BodyAt(k)'
    <3>1. CASE k \in 1..Len(stdin)
      <4>1. stdin'[k] = stdin[k] /\ (k # 1 => stdin'[k - 1] = stdin[k - 1])
        BY <2>2, <3>1
      <4> QED
        BY <2>1, <2>2, <3>1, <4>1 DEF BodyAt, Framed
    <3>2. CASE k = Len(stdin) + 1
      BY <2>2, <3>2 DEF BodyAt
    <3> QED
      BY <2>2, <3>1, <3>2
  <2>6. ASSUME NEW k \in DOMAIN stdin'
        PROVE  HeadAt(k)'
    <3>1. CASE k \in 1..Len(stdin)
      <4>1. stdin'[k] = stdin[k] /\ (k # Len(stdin) => stdin'[k + 1] = stdin[k + 1])
        BY <2>2, <3>1
      <4> QED
        BY <2>1, <2>2, <2>4, <3>1, <4>1 DEF HeadAt, Framed
    <3>2. CASE k = Len(stdin) + 1
      <4>1. pc'[c] = (IF call[c].cmd = "put" THEN "body" ELSE "await") /\ c # None
        BY <2>1 DEF TypeOK
      <4> QED
        BY <2>1, <2>2, <3>2, <4>1 DEF HeadAt, Opens, Unfinished
    <3> QED
      BY <2>2, <3>1, <3>2
  <2>7. HeadRead'
    <3>1. stdin # <<>> => stdin'[1] = stdin[1]
      BY <2>2
    <3> QED
      BY <2>1, <2>2, <2>4, <3>1 DEF HeadRead, Framed
  <2>8. ASSUME NEW d \in Callers
        PROVE  BodyDue(d)'
    <3>1. pc'[d] = "body" => d = c
      BY <2>1, <2>3
    <3> QED
      BY <2>1, <2>2, <3>1 DEF BodyDue
  <2> QED
    BY <2>5, <2>6, <2>7, <2>8 DEF Framed
<1>6. ASSUME NEW c \in Callers, WriteBody(c)
      PROVE  Framed'
  <2>1. /\ Connected /\ Connected' /\ writeMu = c /\ head' = head /\ call' = call /\ pc[c] = "body"
        /\ pc' = [pc EXCEPT ![c] = "await"] /\ writeMu' = None /\ call[c].cmd = "put"
        /\ <<call[c], "body">> \in Requests \X {"head", "body"}
        /\ stdin \in Seq(Requests \X {"head", "body"}) /\ stdin' = Append(stdin, <<call[c], "body">>)
    BY <1>6 DEF WriteBody, Send, childVars, closeVars, Connected, Phases, Step, TypeOK
  <2>2. /\ DOMAIN stdin' = 1..(Len(stdin) + 1) /\ Len(stdin) \in Nat /\ DOMAIN stdin = 1..Len(stdin)
        /\ \A k \in 1..Len(stdin) : stdin'[k] = stdin[k]
        /\ stdin'[Len(stdin) + 1] = <<call[c], "body">>
        /\ stdin' # <<>> /\ Len(stdin') = Len(stdin) + 1 /\ (stdin = <<>> <=> Len(stdin) = 0)
      BY <2>1, Appended
  <2>3. \A d \in Callers : pc'[d] # "body"
    BY <2>1 DEF Phases, TypeOK
  <2>4. IF stdin = <<>> THEN head = call[c] ELSE stdin[Len(stdin)] = <<call[c], "head">>
    BY <2>1 DEF BodyDue, Framed
  <2>5. ASSUME NEW k \in DOMAIN stdin'
        PROVE  BodyAt(k)'
    <3>1. CASE k \in 1..Len(stdin)
      <4>1. stdin'[k] = stdin[k] /\ (k # 1 => stdin'[k - 1] = stdin[k - 1])
        BY <2>2, <3>1
      <4> QED
        BY <2>1, <2>2, <3>1, <4>1 DEF BodyAt, Framed
    <3>2. CASE k = Len(stdin) + 1
      <4>1. stdin'[k] = <<call[c], "body">> /\ (k # 1 => stdin'[k - 1] = stdin[Len(stdin)])
        BY <2>2, <3>2
      <4> QED
        <5>1. k = 1 <=> stdin = <<>>
          BY <2>2, <3>2
        <5>2. stdin'[k][1] = call[c]
          BY <4>1
        <5> QED
          BY <2>1, <2>4, <4>1, <5>1, <5>2 DEF BodyAt
    <3> QED
      BY <2>2, <3>1, <3>2
  <2>6. ASSUME NEW k \in DOMAIN stdin'
        PROVE  HeadAt(k)'
    <3>1. CASE k \in 1..Len(stdin)
      <4>1. stdin'[k] = stdin[k] /\ (k # Len(stdin) => stdin'[k + 1] = stdin[k + 1])
        BY <2>2, <3>1
      <4>2. k = Len(stdin) => stdin[k][1] = call[c] /\ stdin'[k + 1] = <<call[c], "body">>
        BY <2>2, <2>4, <3>1
      <4> QED
        BY <2>1, <2>2, <3>1, <4>1, <4>2 DEF HeadAt, Framed
    <3>2. CASE k = Len(stdin) + 1
      BY <2>2, <3>2 DEF HeadAt, Opens
    <3> QED
      BY <2>2, <3>1, <3>2
  <2>7. HeadRead'
    <3>1. IF stdin = <<>> THEN stdin'[1] = <<call[c], "body">> ELSE stdin'[1] = stdin[1]
      BY <2>2
    <3> QED
      BY <2>1, <2>2, <2>4, <3>1 DEF HeadRead, Framed
  <2>8. ASSUME NEW d \in Callers
        PROVE  BodyDue(d)'
    BY <2>3 DEF BodyDue
  <2> QED
    BY <2>5, <2>6, <2>7, <2>8 DEF Framed
<1>7. ASSUME NEW c \in Callers, WriteFails(c)
      PROVE  Framed'
  BY <1>7 DEF WriteFails, childVars, closeVars, HeadRead, BodyDue, HeadAt, BodyAt, Unfinished,
     Connected, Framed
<1>8. ASSUME NEW c \in Callers, BodyErrorDropped(c)
      PROVE  Framed'
  BY <1>8 DEF BodyErrorDropped, childVars, closeVars, HeadRead, BodyDue, HeadAt, BodyAt,
     Unfinished, Connected, Framed
<1>9. ASSUME NEW c \in Callers, Unregister(c)
      PROVE  Framed'
  BY <1>9 DEF Unregister, childVars, closeVars, HeadRead, BodyDue, HeadAt, BodyAt, Unfinished,
     Connected, Framed, AfterCall, Step
<1>10. ASSUME NEW c \in Callers, Return(c)
      PROVE  Framed'
  BY <1>10 DEF Return, childVars, closeVars, callVars, HeadRead, BodyDue, HeadAt, BodyAt,
     Unfinished, Connected, Framed, AfterCall, Step
<1>11. CASE Started
  BY <1>11 DEF Started, childVars, callVars, HeadRead, BodyDue, HeadAt, BodyAt, Unfinished,
     Connected, Framed, Step
<1>12. CASE BeginClose
  BY <1>12 DEF BeginClose, Busy, childVars, HeadRead, BodyDue, HeadAt, BodyAt, Unfinished,
     Connected, Framed, Step
<1>13. CASE Cancel
  BY <1>13 DEF Cancel, childVars, callVars, HeadRead, BodyDue, HeadAt, BodyAt, Unfinished,
     Connected, Framed, Step
<1>14. CASE CloseStdin
  BY <1>14 DEF CloseStdin, childVars, HeadRead, BodyDue, HeadAt, BodyAt, Unfinished, Connected,
     Framed
<1>15. CASE Closed
  BY <1>15 DEF Closed, childVars, closeVars, callVars, HeadRead, BodyDue, HeadAt, BodyAt,
     Unfinished, Connected, Framed, Step
<1>16. CASE Deliver
  BY <1>16 DEF Deliver, Looping, childVars, HeadRead, BodyDue, HeadAt, BodyAt, Unfinished,
     Connected, Framed
<1>17. CASE EndOfAnswers
  BY <1>17 DEF EndOfAnswers, Looping, QuietEnd, childVars, HeadRead, BodyDue, HeadAt, BodyAt,
     Unfinished, Connected, Framed
<1>18. CASE ReadRequest
  <2>1. /\ \A k \in DOMAIN stdin' : stdin'[k] = stdin[k + 1]
        /\ Len(stdin) \in Nat \ {0} /\ DOMAIN stdin = 1..Len(stdin) /\ DOMAIN stdin' = 1..(Len(stdin) - 1)
        /\ Head(stdin) = stdin[1] /\ stdin[1] \in Requests \X {"head", "body"} /\ Len(stdin') = Len(stdin) - 1
        /\ (stdin' = <<>> <=> Len(stdin) = 1) /\ stdin # <<>>
    <3>1. stdin \in Seq(Requests \X {"head", "body"}) /\ stdin # <<>> /\ stdin' = Tail(stdin)
      BY <1>18 DEF ReadRequest, TypeOK
    <3> QED
      BY <3>1, Shifted
  <2>2. head' = IF Opens(stdin[1]) THEN stdin[1][1] ELSE None
    BY <1>18, <2>1 DEF ReadRequest, Opens
  <2>3. UNCHANGED <<pc, call, writeMu>> /\ (Connected' <=> Connected) /\ Connected' = Connected
    BY <1>18 DEF ReadRequest, closeVars, callVars, Connected
  <2>4. \A r : Unfinished(r) => Unfinished(r)'
    BY <2>3 DEF Unfinished
  <2>5. ASSUME NEW k \in DOMAIN stdin'
        PROVE  BodyAt(k)'
    <3>1. k + 1 \in DOMAIN stdin /\ stdin'[k] = stdin[k + 1]
      BY <2>1
    <3>2. BodyAt(k + 1)
      BY <3>1 DEF Framed
    <3>3. CASE k = 1
      <4>1. stdin'[1] = stdin[2]
        BY <3>1, <3>3
      <4>2. stdin[2][2] = "body" => stdin[2][1].cmd = "put" /\ stdin[1] = <<stdin[2][1], "head">>
        BY <3>2, <3>3 DEF BodyAt
      <4> QED
        BY <2>2, <3>3, <4>1, <4>2 DEF BodyAt, Opens
    <3>4. CASE k # 1
      <4>1. k - 1 \in DOMAIN stdin' /\ stdin'[k - 1] = stdin[k]
        BY <2>1, <3>4
      <4>2. k \in Nat /\ (k + 1) - 1 = k /\ k + 1 # 1
        BY <2>1
      <4> QED
        BY <3>1, <3>2, <3>4, <4>1, <4>2 DEF BodyAt
    <3> QED
      BY <3>3, <3>4
  <2>6. ASSUME NEW k \in DOMAIN stdin'
        PROVE  HeadAt(k)'
    <3>1. k + 1 \in DOMAIN stdin /\ stdin'[k] = stdin[k + 1] /\ HeadAt(k + 1)
      BY <2>1 DEF Framed
    <3>2. CASE k = Len(stdin')
      <4>1. k + 1 = Len(stdin)
        BY <2>1, <3>2
      <4> QED
        BY <2>4, <3>1, <3>2, <4>1 DEF HeadAt
    <3>3. CASE k # Len(stdin')
      <4>1. k + 1 \in DOMAIN stdin' /\ stdin'[k + 1] = stdin[k + 2]
        BY <2>1, <3>3
      <4>2. k + 1 # Len(stdin) /\ (k + 1) + 1 = k + 2
        BY <2>1, <3>3
      <4> QED
        BY <3>1, <3>3, <4>1, <4>2 DEF HeadAt
    <3> QED
      BY <3>2, <3>3
  <2>7. HeadRead'
    <3>1. HeadAt(1) /\ (Len(stdin) # 1 => 1 \in DOMAIN stdin' /\ stdin'[1] = stdin[2])
      BY <2>1 DEF Framed
    <3> QED
      BY <2>1, <2>2, <2>4, <3>1 DEF HeadRead, HeadAt, Opens
  <2>8. ASSUME NEW d \in Callers
        PROVE  BodyDue(d)'
    <3>1. Len(stdin) # 1 => Len(stdin') \in DOMAIN stdin' /\ stdin'[Len(stdin')] = stdin[Len(stdin)]
      BY <2>1
    <3>2. pc[d] = "body" => call[d].cmd = "put"
      BY DEF Phases
    <3>3. stdin' = <<>> => Len(stdin) = 1
      BY <2>1
    <3> QED
      BY <2>1, <2>2, <2>3, <3>1, <3>2, <3>3 DEF BodyDue, Opens, Framed
  <2> QED
    BY <2>5, <2>6, <2>7, <2>8 DEF Framed
<1>19. CASE ChildExits
  BY <1>19 DEF ChildExits, ChildGone, HeadRead, BodyDue, Connected, Framed
<1>20. CASE ChildDies
  BY <1>20 DEF ChildDies, ChildGone, HeadRead, BodyDue, Connected, Framed
<1>21. CASE ChildLeaves
  BY <1>21 DEF ChildLeaves, ChildGone, HeadRead, BodyDue, Connected, Framed
<1>22. ASSUME NEW r \in pending, AnswerRequest(r)
      PROVE  Framed'
  BY <1>22 DEF AnswerRequest, Stored, closeVars, callVars, HeadRead, BodyDue, HeadAt, BodyAt,
     Unfinished, Connected, Framed
<1>23. ASSUME NEW i \in Ids, Evict(i)
      PROVE  Framed'
  BY <1>23 DEF Evict, closeVars, callVars, HeadRead, BodyDue, HeadAt, BodyAt, Unfinished,
     Connected, Framed
<1>24. CASE UNCHANGED vars
  BY <1>24 DEF vars, childVars, closeVars, callVars, HeadRead, BodyDue, HeadAt, BodyAt,
     Unfinished, Connected, Framed
<1> QED
  BY <1>1, <1>2, <1>3, <1>4, <1>5, <1>6, <1>7, <1>8, <1>9, <1>10, <1>11, <1>12, <1>13, <1>14,
     <1>15, <1>16, <1>17, <1>18, <1>19, <1>20, <1>21, <1>22, <1>23, <1>24 DEF Next, Steps,
     CloserSteps, Serve

LEMMA InvHolds == Spec => []IInv
<1>1. Init => IInv
  <2> SUFFICES ASSUME Init
               PROVE  IInv
    OBVIOUS
  <2> USE ProgAssumption DEF ProgAssumption, Callers, Init, NoRequest
  <2>1. TypeOK /\ Formed
    <3>1. NoRequest \in Requests /\ WellFormed(NoRequest)
      BY DEF Requests, WellFormed
    <3>2. call \in [Callers -> Requests] /\ pending \subseteq Requests
      BY <3>1
    <3>3. resc \in [Callers -> Answers \cup {None}] /\ reply \in [Callers -> Outputs \cup {Miss, None}]
      OBVIOUS
    <3>4. /\ stdin \in Seq(Requests \X {"head", "body"}) /\ Len(stdin) = 0 /\ DOMAIN stdin = {}
          /\ stdout \in Seq(Answers) /\ Len(stdout) = 0
      OBVIOUS
    <3>5. pc \in [Callers -> {"starting", "idle", "register", "unable", "lock", "write", "body",
                               "await", "failed", "cancel", "drain", "closed"}]
      OBVIOUS
    <3>6. nextID \in 0..MaxRequests /\ inFlight \in [0..MaxRequests -> Callers \cup {None}]
      OBVIOUS
    <3>7. /\ can \in Abilities \cup {None} /\ writeMu \in Callers \cup {None}
          /\ closing \in BOOLEAN /\ cancelled \in BOOLEAN /\ fatal \in BOOLEAN /\ eof \in BOOLEAN
          /\ readLoop \in {"running", "done"} /\ child \in {"running", "exited"}
          /\ head \in Requests \cup {None} /\ store \in [Ids -> Outputs \cup {None}]
      OBVIOUS
    <3>8. Len(stdin) <= PipeSize /\ Len(stdout) <= PipeSize
      BY <3>4
    <3>9. TypeOK
      <4> USE DEF TypeOK
      <4> HIDE DEF Init
      <4> QED
        BY <3>2, <3>3, <3>4, <3>5, <3>6, <3>7, <3>8
    <3> QED
      BY <3>1, <3>4, <3>9 DEF Formed
  <2>2. IdsLeft
    <3>1. Registering = {} /\ Cardinality(Registering) = 0
      BY FS_EmptySet DEF Registering
    <3> QED
      BY <3>1 DEF IdsLeft, CloserDone
  <2>3. Phases /\ Channels
    BY DEF IdOf, Registered, ChannelOf, Channels
  <2>4. Timely /\ Framed
    BY DEF Timely, Asked, HeadRead, BodyDue, Framed
  <2> QED
    BY <2>1, <2>2, <2>3, <2>4 DEF IInv
<1>2. IInv /\ [Next]_vars => IInv'
  BY TypeStep, IdsStep, PhaseStep, ChannelStep, TimelyStep, FrameStep DEF IInv
<1> QED
  BY <1>1, <1>2, PTL DEF Spec

(* Every part of the cache and of its child has its type, and there is an  *)
(* id for every request.                                                   *)
THEOREM ProgTypeCorrect == Spec => []TypeOK
  BY InvHolds, PTL DEF IInv

(* Goroutines never get each other's answers and never wait for one that   *)
(* is kept from them, whatever the order of the answers and even of a      *)
(* child that answers twice.                                               *)
THEOREM AnswersReachCallers == Spec => []WaitersRegistered
<1>1. IInv => WaitersRegistered
  BY DEF IInv, WaitersRegistered, Registered, ChannelOf, Channels
<1> QED
  BY <1>1, InvHolds, PTL

(* writeMu keeps the head and the body of a Put together, over all the     *)
(* flushes between them.                                                   *)
THEOREM FramesStayIntact == Spec => []FramesIntact
<1>1. IInv => FramesIntact
  <2> SUFFICES ASSUME IInv, child = "running", stdin # <<>>
               PROVE  IF head = None THEN Head(stdin)[2] = "head" ELSE Head(stdin) = <<head, "body">>
    BY DEF FramesIntact
  <2>1. Head(stdin) = stdin[1] /\ 1 \in DOMAIN stdin /\ Head(stdin) \in Requests \X {"head", "body"}
    BY Shifted DEF IInv, TypeOK
  <2>2. Head(stdin)[1] \in Requests /\ Head(stdin)[2] \in {"head", "body"}
    BY <2>1
  <2>3. Head(stdin)[1] # None
    BY <2>2, NoneAssumption
  <2> QED
    BY <2>1, <2>2, <2>3 DEF IInv, HeadRead, BodyAt, Framed
<1> QED
  BY <1>1, InvHolds, PTL

-----------------------------------------------------------------------------
(* The cache behind a child process implements the map of CacheMap.        *)

(* What CacheMap sees of the state. *)
KeyOf(c) == IF Asking(c) THEN call[c].key ELSE None
Question == [c \in Clients |-> KeyOf(c)]
Answered == [c \in Clients |-> Found(c)]
Replies  == [c \in Clients |-> reply[c]]

(* A request has an id from the moment that it is registered.              *)
Numbered ==
    \A c \in Clients :
       /\ pc[c] \in {"register", "unable"} => call[c].id = 0
       /\ pc[c] \in {"lock", "write", "body", "await", "failed"} => call[c].id # 0

(* A request on its way is the one that its caller waits for: the answer   *)
(* to it answers the question of whoever gets it.                          *)
Current(r) == r.id <= nextID /\ (inFlight[r.id] # None => call[inFlight[r.id]] = r)

Faithful ==
    /\ \A k \in DOMAIN stdin : Current(stdin[k][1])
    /\ head # None => Current(head)
    /\ \A r \in pending : Current(r)

MapInv == IInv /\ Numbered /\ Faithful

-----------------------------------------------------------------------------
(* The first answer to n, as answers come and go.                          *)
LEMMA FirstAppended ==
    ASSUME NEW n, NEW s \in Seq(Answers), NEW a \in Answers
    PROVE  FirstFor(n, Append(s, a)) =
              IF a.id = n /\ (\A k \in 1..Len(s) : s[k].id # n) THEN {a.out} ELSE FirstFor(n, s)
<1> DEFINE t == Append(s, a)
<1>1. /\ DOMAIN s = 1..Len(s) /\ DOMAIN t = 1..(Len(s) + 1) /\ Len(s) \in Nat
      /\ \A k \in 1..Len(s) : t[k] = s[k]
      /\ t[Len(s) + 1] = a
  BY Appended
<1> HIDE DEF t
<1>2. CASE a.id = n /\ \A k \in 1..Len(s) : s[k].id # n
  <2>1. \A m \in DOMAIN t : t[m].id = n <=> m = Len(s) + 1
    BY <1>1, <1>2
  <2>2. \A j \in 1..((Len(s) + 1) - 1) : t[j].id # n
    BY <1>1, <1>2
  <2>3. {m \in DOMAIN t : t[m].id = n /\ \A j \in 1..(m - 1) : t[j].id # n} = {Len(s) + 1}
    BY <1>1, <2>1, <2>2
  <2> QED
    BY <1>1, <1>2, <2>3 DEF FirstFor, t
<1>3. CASE ~(a.id = n /\ \A k \in 1..Len(s) : s[k].id # n)
  <2>1. {m \in DOMAIN t : t[m].id = n /\ \A j \in 1..(m - 1) : t[j].id # n}
        = {m \in DOMAIN s : s[m].id = n /\ \A j \in 1..(m - 1) : s[j].id # n}
    <3>1. ASSUME NEW m \in 1..Len(s)
          PROVE  (t[m].id = n /\ \A j \in 1..(m - 1) : t[j].id # n) <=>
                 (s[m].id = n /\ \A j \in 1..(m - 1) : s[j].id # n)
      <4>1. \A j \in 1..(m - 1) : j \in 1..Len(s)
        BY <1>1
      <4> QED
        BY <1>1, <4>1
    <3>2. ~(t[Len(s) + 1].id = n /\ \A j \in 1..((Len(s) + 1) - 1) : t[j].id # n)
      BY <1>1, <1>3
    <3>3. DOMAIN t = 1..Len(s) \cup {Len(s) + 1}
      BY <1>1
    <3> QED
      BY <1>1, <3>1, <3>2, <3>3
  <2>2. \A m \in DOMAIN s : t[m].out = s[m].out
    BY <1>1
  <2> QED
    BY <1>3, <2>1, <2>2 DEF FirstFor, t
<1> QED
  BY <1>2, <1>3 DEF t

LEMMA FirstTaken ==
    ASSUME NEW n, NEW s \in Seq(Answers), s # <<>>
    PROVE  FirstFor(n, s) = IF Head(s).id = n THEN {Head(s).out} ELSE FirstFor(n, Tail(s))
<1> DEFINE t == Tail(s)
<1>1. /\ Head(s) = s[1] /\ Len(s) \in Nat \ {0}
      /\ DOMAIN s = 1..Len(s) /\ DOMAIN t = 1..(Len(s) - 1)
      /\ \A k \in 1..(Len(s) - 1) : t[k] = s[k + 1]
  BY Shifted
<1> HIDE DEF t
<1>2. CASE Head(s).id = n
  <2>1. {m \in DOMAIN s : s[m].id = n /\ \A j \in 1..(m - 1) : s[j].id # n} = {1}
    <3>1. 1 \in DOMAIN s /\ s[1].id = n /\ \A j \in 1..(1 - 1) : s[j].id # n
      BY <1>1, <1>2
    <3>2. ASSUME NEW m \in DOMAIN s, \A j \in 1..(m - 1) : s[j].id # n
          PROVE  m = 1
      BY <1>1, <1>2, <3>2
    <3> QED
      BY <3>1, <3>2
  <2> QED
    BY <1>1, <1>2, <2>1 DEF FirstFor
<1>3. CASE Head(s).id # n
  <2>1. ASSUME NEW m \in 1..(Len(s) - 1)
        PROVE  (t[m].id = n /\ \A j \in 1..(m - 1) : t[j].id # n) <=>
               (s[m + 1].id = n /\ \A j \in 1..((m + 1) - 1) : s[j].id # n)
    <3>1. t[m] = s[m + 1] /\ \A j \in 1..(m - 1) : t[j] = s[j + 1] /\ j + 1 \in 1..m
      BY <1>1
    <3>2. \A j \in 1..m : j = 1 \/ (j - 1 \in 1..(m - 1) /\ t[j - 1] = s[j])
      BY <1>1
    <3>3. s[1].id # n /\ (m + 1) - 1 = m
      BY <1>1, <1>3
    <3> QED
      BY <3>1, <3>2, <3>3
  <2>2. \A o : o \in FirstFor(n, t) <=> \E m \in 1..(Len(s) - 1) :
                  o = t[m].out /\ t[m].id = n /\ \A j \in 1..(m - 1) : t[j].id # n
    BY <1>1 DEF FirstFor
  <2>3. \A o : o \in FirstFor(n, s) <=> \E m \in 1..Len(s) :
                  o = s[m].out /\ s[m].id = n /\ \A j \in 1..(m - 1) : s[j].id # n
    BY <1>1 DEF FirstFor
  <2>4. \A m \in 1..Len(s) : s[m].id = n => m - 1 \in 1..(Len(s) - 1) /\ (m - 1) + 1 = m
    BY <1>1, <1>3
  <2>5. \A m \in 1..(Len(s) - 1) : m + 1 \in 1..Len(s) /\ t[m].out = s[m + 1].out
    BY <1>1
  <2>6. ASSUME NEW o \in FirstFor(n, s)
        PROVE  o \in FirstFor(n, t)
    <3>1. PICK m \in 1..Len(s) : o = s[m].out /\ s[m].id = n /\ \A j \in 1..(m - 1) : s[j].id # n
      BY <2>3
    <3>2. PICK l \in 1..(Len(s) - 1) : l + 1 = m
      BY <2>4, <3>1
    <3>3. t[l].id = n /\ \A j \in 1..(l - 1) : t[j].id # n
      BY <2>1, <3>1, <3>2
    <3> QED
      BY <2>2, <2>5, <3>1, <3>2, <3>3
  <2>7. ASSUME NEW o \in FirstFor(n, t)
        PROVE  o \in FirstFor(n, s)
    <3>1. PICK m \in 1..(Len(s) - 1) :
               o = t[m].out /\ t[m].id = n /\ \A j \in 1..(m - 1) : t[j].id # n
      BY <2>2
    <3>2. s[m + 1].id = n /\ \A j \in 1..((m + 1) - 1) : s[j].id # n
      BY <2>1, <3>1
    <3> QED
      BY <2>3, <2>5, <3>1, <3>2
  <2>8. FirstFor(n, s) = FirstFor(n, t)
    BY <2>6, <2>7
  <2> QED
    BY <1>3, <2>8 DEF t
<1> QED
  BY <1>2, <1>3

LEMMA FirstOfNone ==
    ASSUME NEW n, NEW s, \A k \in DOMAIN s : s[k].id # n
    PROVE  FirstFor(n, s) = {}
  BY DEF FirstFor

-----------------------------------------------------------------------------
(* Whoever waits for an answer, and has none yet, is registered for it.    *)
LEMMA Waiting ==
    ASSUME IInv, Numbered, NEW c \in Clients, Asking(c), call[c].id # 0, resc[c] = None
    PROVE  /\ call[c].id \in 0..MaxRequests /\ inFlight[call[c].id] = c
           /\ pc[c] \in {"lock", "write", "body", "await", "failed"}
<1> USE ProgAssumption DEF ProgAssumption, Callers
<1>1. pc[c] \in {"lock", "write", "body", "await", "failed"}
  BY DEF Numbered, Asking, IInv, TypeOK, Phases
<1>2. Registered(c) /\ call[c] \in Requests
  BY <1>1 DEF IInv, TypeOK, Channels, ChannelOf
<1> QED
  BY <1>1, <1>2 DEF Registered, Requests

(* A request that was sent stays current.                                  *)
LEMMA CurrentStays ==
    ASSUME TypeOK, nextID' \in Nat, nextID <= nextID',
           \A n \in 0..nextID : inFlight'[n] \in {inFlight[n], None},
           \A n \in 0..nextID : inFlight'[n] # None => call'[inFlight[n]] = call[inFlight[n]],
           NEW r \in Requests, Current(r)
    PROVE  Current(r)'
<1>1. r.id \in 0..nextID /\ nextID \in Nat /\ r.id \in Nat
  BY ProgAssumption DEF ProgAssumption, Current, Requests, TypeOK
<1> QED
  BY <1>1 DEF Current

(* Such is every step.                                                     *)
Keeps ==
    /\ nextID' \in Nat /\ nextID <= nextID'
    /\ \A n \in 0..nextID : inFlight'[n] \in {inFlight[n], None}
    /\ \A n \in 0..nextID : inFlight'[n] # None => call'[inFlight[n]] = call[inFlight[n]]

LEMMA KeepsStep ==
    ASSUME IInv, Numbered, [Next]_vars
    PROVE  Keeps /\ Numbered'
<1> USE ProgAssumption DEF ProgAssumption, Callers, Keeps
<1>0. /\ nextID \in Nat /\ nextID <= nextID /\ \A n \in 0..nextID : n \in 0..MaxRequests
      /\ inFlight \in [0..MaxRequests -> Callers \cup {None}]
  BY DEF IInv, TypeOK
<1>1. ASSUME NEW c \in Clients, NEW cmd, NEW i, NEW o, Begin(c, cmd, i, o)
      PROVE  Keeps /\ Numbered'
  <2>1. \A n \in 0..nextID : inFlight[n] # c
    BY <1>0, <1>1 DEF Begin, Step, IInv, Channels, ChannelOf
  <2> QED
    BY <1>0, <1>1, <2>1 DEF Begin, Step, IInv, TypeOK, Numbered
<1>2. CASE BeginClose
  <2>1. \A n \in 0..nextID : inFlight[n] # Closer
    BY <1>0, <1>2 DEF BeginClose, Step, IInv, Channels, ChannelOf
  <2> QED
    BY <1>0, <1>2, <2>1 DEF BeginClose, Step, IInv, TypeOK, Numbered
<1>3. ASSUME NEW c \in Callers, Register(c)
      PROVE  Keeps /\ Numbered'
  <2>1. \A n \in 0..nextID : inFlight[n] # c /\ n # nextID + 1
    BY <1>0, <1>3 DEF Register, Step, IInv, Channels, ChannelOf
  <2>2. nextID + 1 \in 1..MaxRequests
    BY <1>3, IdLeft DEF Register, Step, IInv
  <2>3. \A n \in 0..nextID : inFlight'[n] = inFlight[n]
    BY <1>0, <1>3, <2>1, <2>2 DEF Register, NewID, IInv, TypeOK
  <2>4. \A n \in 0..nextID : inFlight[n] # None => call'[inFlight[n]] = call[inFlight[n]]
    BY <1>0, <1>3, <2>1 DEF Register, IInv, TypeOK
  <2>5. call[c] \in Requests /\ call'[c].id = nextID + 1 /\ nextID' = nextID + 1
    BY <1>3 DEF Register, NewID, IInv, TypeOK, Requests
  <2>6. Numbered'
    BY <1>0, <1>3, <2>5 DEF Register, Step, IInv, TypeOK, Numbered
  <2> QED
    BY <1>0, <2>3, <2>4, <2>5, <2>6
<1>4. ASSUME NEW c \in Callers,
             Unable(c) \/ LockWriter(c) \/ Write(c) \/ WriteBody(c) \/ WriteFails(c)
             \/ BodyErrorDropped(c) \/ Unregister(c) \/ Return(c)
      PROVE  Keeps /\ Numbered'
  <2>1. nextID' = nextID /\ call' = call
    BY <1>4 DEF Unable, LockWriter, Write, WriteBody, Send, WriteFails, BodyErrorDropped,
       Unregister, Return, callVars
  <2>2. inFlight' = inFlight \/ inFlight' = [inFlight EXCEPT ![call[c].id] = None]
    BY <1>4 DEF Unable, LockWriter, Write, WriteBody, Send, WriteFails, BodyErrorDropped,
       Unregister, Return, callVars
  <2>3. /\ pc[c] \in {"unable", "lock", "write", "body", "await", "failed"}
        /\ \/ pc' = [pc EXCEPT ![c] = AfterCall(c)]
           \/ pc' = [pc EXCEPT ![c] = "idle"]
           \/ pc[c] \in {"lock", "write", "body"} /\ \E to \in {"write", "body", "await", "failed"} :
                 pc' = [pc EXCEPT ![c] = to]
    BY <1>4 DEF Unable, LockWriter, Write, WriteBody, Send, WriteFails, BodyErrorDropped,
       Unregister, Return, Step
  <2>4. Numbered'
    BY <2>1, <2>3 DEF AfterCall, IInv, TypeOK, Numbered
  <2>5. \A n \in 0..nextID : inFlight'[n] \in {inFlight[n], None}
    BY <1>0, <2>2
  <2> QED
    BY <1>0, <2>1, <2>4, <2>5
<1>5. CASE CloserSteps \/ EndOfAnswers \/ Serve \/ ChildDies \/ ChildLeaves \/ UNCHANGED vars
           \/ \E i \in Ids : Evict(i)
  <2>1. UNCHANGED callVars
    BY <1>5 DEF CloserSteps, Started, Cancel, CloseStdin, Closed, EndOfAnswers, Serve, ReadRequest,
       AnswerRequest, ChildExits, ChildDies, ChildLeaves, ChildGone, Evict, vars
  <2>2. \/ pc' = pc
        \/ \E to \in {"idle", "drain", "closed"} : pc' = [pc EXCEPT ![Closer] = to]
    BY <1>5 DEF CloserSteps, Started, Cancel, CloseStdin, Closed, EndOfAnswers, Serve, ReadRequest,
       AnswerRequest, ChildExits, ChildDies, ChildLeaves, ChildGone, Evict, vars, Step
  <2>3. Numbered'
    BY <2>1, <2>2 DEF callVars, IInv, TypeOK, Numbered
  <2> QED
    BY <1>0, <2>1, <2>3 DEF callVars
<1>6. CASE Deliver
  <2>1. call' = call /\ nextID' = nextID /\ pc' = pc
    BY <1>6 DEF Deliver
  <2>2. inFlight' = inFlight \/ inFlight' = [inFlight EXCEPT ![Head(stdout).id] = None]
    BY <1>6 DEF Deliver
  <2>3. \A n \in 0..nextID : inFlight'[n] \in {inFlight[n], None}
    BY <1>0, <2>2
  <2>4. Numbered'
    BY <2>1 DEF Numbered
  <2> QED
    BY <1>0, <2>1, <2>3, <2>4
<1> QED
  BY <1>1, <1>2, <1>3, <1>4, <1>5, <1>6 DEF Next, Steps

LEMMA FaithfulStep ==
    ASSUME MapInv, [Next]_vars, IInv'
    PROVE  Numbered' /\ Faithful'
<1> USE ProgAssumption DEF ProgAssumption, Callers
<1>1. Keeps /\ Numbered'
  BY KeepsStep DEF MapInv
<1> SUFFICES Faithful'
  BY <1>1
<1>2. \A r \in Requests : Current(r) => Current(r)'
  BY <1>1, CurrentStays DEF Keeps, MapInv, IInv
<1>3. /\ stdin \in Seq(Requests \X {"head", "body"}) /\ pending \subseteq Requests
      /\ head \in Requests \cup {None}
      /\ \A k \in DOMAIN stdin : stdin[k][1] \in Requests
  BY DEF MapInv, IInv, TypeOK
<1>4. ASSUME stdin' = stdin, pending' \subseteq pending, head' \in {head, None}
      PROVE  Faithful'
  BY <1>2, <1>3, <1>4 DEF Faithful, MapInv
<1>5. ASSUME NEW c \in Callers, NEW part \in {"head", "body"}, pc[c] \in {"write", "body"},
             call' = call, nextID' = nextID, inFlight' = inFlight,
             stdin' = Append(stdin, <<call[c], part>>), pending' = pending, head' = head
      PROVE  Faithful'
  <2>1. Registered(c) /\ call[c] \in Requests
    BY <1>5 DEF MapInv, IInv, TypeOK, Channels, ChannelOf
  <2>2. call[c].id \in 0..MaxRequests /\ call[c].id <= nextID /\ c # None
    BY <2>1 DEF Registered, MapInv, IInv, Channels, IdOf, Requests
  <2>3. Current(call[c])
    BY <2>1, <2>2 DEF Current, Registered
  <2>4. \A k \in DOMAIN stdin' : Current(stdin'[k][1])
    BY <1>3, <1>5, <2>1, <2>3, Appended DEF MapInv, Faithful
  <2>5. \A k \in DOMAIN stdin' : stdin'[k][1] \in Requests
    BY <1>3, <1>5, <2>1, Appended
  <2> QED
    BY <1>2, <1>3, <1>5, <2>4, <2>5 DEF Faithful, MapInv
<1>6. CASE ReadRequest
  <2>1. /\ Head(stdin)[1] \in Requests /\ Current(Head(stdin)[1])
        /\ \A k \in DOMAIN stdin' : stdin'[k][1] \in Requests /\ Current(stdin'[k][1])
    BY <1>3, <1>6, Shifted DEF ReadRequest, MapInv, Faithful
  <2>2. head' \in {None, Head(stdin)[1]} /\ pending' \subseteq pending \cup {Head(stdin)[1]}
    BY <1>6 DEF ReadRequest
  <2> QED
    BY <1>2, <1>3, <2>1, <2>2 DEF Faithful, MapInv
<1>7. ASSUME NEW c \in Callers, Write(c)
      PROVE  Faithful'
  BY <1>5, <1>7 DEF Write, Send, Step, childVars
<1>8. ASSUME NEW c \in Callers, WriteBody(c)
      PROVE  Faithful'
  BY <1>5, <1>8 DEF WriteBody, Send, Step, childVars
<1>9. CASE ChildExits \/ ChildDies \/ ChildLeaves
  <2>1. stdin' = <<>> /\ head' = None /\ pending' = {}
    BY <1>9 DEF ChildExits, ChildDies, ChildLeaves, ChildGone
  <2> QED
    BY <2>1 DEF Faithful
<1>10. ASSUME NEW c \in Clients, NEW cmd, NEW i, NEW o, Begin(c, cmd, i, o)
       PROVE  Faithful'
  BY <1>4, <1>10 DEF Begin, childVars
<1>11. ASSUME NEW c \in Callers, Unable(c) \/ Register(c) \/ LockWriter(c) \/ WriteFails(c)
              \/ BodyErrorDropped(c) \/ Unregister(c) \/ Return(c)
       PROVE  Faithful'
  BY <1>4, <1>11 DEF Unable, Register, LockWriter, WriteFails, BodyErrorDropped, Unregister, Return,
     childVars
<1>12. CASE BeginClose \/ CloserSteps \/ Deliver \/ EndOfAnswers \/ UNCHANGED vars
            \/ \E i \in Ids : Evict(i)
  BY <1>4, <1>12 DEF BeginClose, CloserSteps, Started, Cancel, CloseStdin, Closed, Deliver,
     EndOfAnswers, Evict, vars, childVars
<1>13. ASSUME NEW r \in pending, AnswerRequest(r)
       PROVE  Faithful'
  BY <1>4, <1>13 DEF AnswerRequest
<1> QED
  BY <1>6, <1>7, <1>8, <1>9, <1>10, <1>11, <1>12, <1>13 DEF Next, Steps, Serve

LEMMA MapInvHolds == Spec => []MapInv
<1>1. Init => Numbered /\ Faithful
  BY ProgAssumption DEF ProgAssumption, Callers, Init, NoRequest, Numbered, Faithful, Current
<1>2. IInv /\ IInv' /\ Numbered /\ Faithful /\ [Next]_vars => Numbered' /\ Faithful'
  BY FaithfulStep DEF MapInv
<1> QED
  BY <1>1, <1>2, InvHolds, PTL DEF Spec, MapInv

-----------------------------------------------------------------------------
(* What a caller has found, from what is on its way to it.                 *)
LEMMA FoundNothing ==
    ASSUME NEW c, ~Asking(c) \/ call[c].id = 0 \/ OnItsWay(c) \in {{}, {Miss}}
    PROVE  Found(c) = None
  BY DEF Found

LEMMA FoundIt ==
    ASSUME NEW c, NEW o, Asking(c), call[c].id # 0, OnItsWay(c) = {o}, o # Miss
    PROVE  Found(c) = o
  BY DEF Found

(* A step that keeps the lookups and their answers is one of CacheMap if   *)
(* it keeps, stores or forgets an entry.                                   *)
LEMMA QuietStep ==
    ASSUME Question' = Question, Answered' = Answered, Replies' = Replies,
           \/ store' = store
           \/ \E i \in Ids, o \in Outputs : store' = [store EXCEPT ![i] = o]
           \/ \E i \in Ids : store' = [store EXCEPT ![i] = None]
    PROVE  [Map!MapNext]_(Map!mapVars)
  BY DEF Map!MapNext, Map!mapVars, Map!Store, Map!Forget, Question, KeyOf, Answered, Replies

(* What is on its way to c depends on its channel, its id and the answers. *)
LEMMA SameWay ==
    ASSUME NEW c, call'[c] = call[c], resc'[c] = resc[c],
           resc[c] # None \/ FirstFor(call[c].id, stdout') = FirstFor(call[c].id, stdout)
    PROVE  OnItsWay(c)' = OnItsWay(c)
  BY DEF OnItsWay

LEMMA SameFound ==
    ASSUME NEW c, Asking(c)' = Asking(c),
           Asking(c) => call'[c] = call[c] /\ (call[c].id # 0 => OnItsWay(c)' = OnItsWay(c))
    PROVE  Found(c)' = Found(c)
<1>1. CASE Asking(c) /\ call[c].id # 0
  <2>1. Asking(c)' /\ call'[c].id # 0 /\ OnItsWay(c)' = OnItsWay(c)
    BY <1>1
  <2>2. (CHOOSE o \in OnItsWay(c)' : TRUE) = (CHOOSE o \in OnItsWay(c) : TRUE)
    BY <2>1
  <2> QED
    BY <1>1, <2>1, <2>2 DEF Found
<1>2. CASE ~(Asking(c) /\ call[c].id # 0)
  BY <1>2 DEF Found
<1> QED
  BY <1>1, <1>2

LEMMA SameQuestions ==
    ASSUME \A c \in Clients : Asking(c)' = Asking(c),
           \A c \in Clients : Asking(c) => call'[c] = call[c]
    PROVE  Question' = Question
<1>1. ASSUME NEW c \in Clients
      PROVE  KeyOf(c)' = KeyOf(c)
  BY DEF KeyOf
<1> QED
  BY <1>1 DEF Question

(* A step that leaves the calls, the channels and the answers alone.       *)
LEMMA Unmoved ==
    ASSUME stdout' = stdout, \A c \in Clients : Asking(c)' = Asking(c),
           \A c \in Clients : Asking(c) => call'[c] = call[c] /\ resc'[c] = resc[c],
           \A c \in Clients : reply'[c] = reply[c]
    PROVE  Question' = Question /\ Answered' = Answered /\ Replies' = Replies
<1>1. ASSUME NEW c \in Clients
      PROVE  Found(c)' = Found(c)
  <2>1. Asking(c) => OnItsWay(c)' = OnItsWay(c)
    BY SameWay
  <2> QED
    BY <2>1, SameFound
<1> QED
  BY <1>1, SameQuestions DEF Answered, Replies

(* A call begins with a question, or with none.                            *)
LEMMA MapBegin ==
    ASSUME IInv, NEW c \in Clients, NEW cmd \in {"get", "put"}, NEW i \in Ids, NEW o,
           Begin(c, cmd, i, o)
    PROVE  Map!MapNext
<1> USE ProgAssumption DEF ProgAssumption, Callers
<1>1. /\ pc[c] = "idle" /\ ~Asking(c) /\ store' = store /\ stdout' = stdout /\ resc' = resc
      /\ pc' \in {[pc EXCEPT ![c] = "register"], [pc EXCEPT ![c] = "unable"]}
      /\ call' = [call EXCEPT ![c] = [id |-> 0, cmd |-> cmd, key |-> i, out |-> o]]
      /\ reply' = [reply EXCEPT ![c] = None]
  BY DEF Begin, Step, Asking, childVars
<1>2. /\ \A d \in Clients \ {c} : Asking(d)' = Asking(d) /\ call'[d] = call[d]
      /\ call'[c].id = 0 /\ call'[c].key = i /\ (Asking(c)' <=> cmd = "get")
  BY <1>1 DEF IInv, TypeOK, Asking
<1>3. Answered' = Answered
  <2>1. ASSUME NEW d \in Clients
        PROVE  Found(d)' = Found(d)
    <3>1. CASE d = c
      BY <1>1, <1>2, <3>1 DEF Found
    <3>2. CASE d # c
      BY <1>1, <1>2, <3>2, SameWay, SameFound
    <3> QED
      BY <3>1, <3>2
  <2> QED
    BY <2>1 DEF Answered
<1>4. Question[c] = None /\ Question' = [Question EXCEPT ![c] = IF cmd = "get" THEN i ELSE None]
  <2>1. ASSUME NEW d \in Clients
        PROVE  KeyOf(d)' = IF d = c THEN (IF cmd = "get" THEN i ELSE None) ELSE KeyOf(d)
    <3>1. CASE d = c
      BY <1>2, <3>1 DEF KeyOf
    <3>2. CASE d # c
      BY <1>2, <3>2 DEF KeyOf
    <3> QED
      BY <3>1, <3>2
  <2>2. KeyOf(c) = None
    BY <1>1 DEF KeyOf
  <2> QED
    BY <2>1, <2>2 DEF Question
<1>5. Replies' = [Replies EXCEPT ![c] = None]
  BY <1>1 DEF Replies, IInv, TypeOK
<1>6. CASE cmd = "get"
  <2>1. Map!Ask(c, i)
    BY <1>1, <1>3, <1>4, <1>5, <1>6 DEF Map!Ask, Question, KeyOf, Answered, Replies
  <2> QED
    BY <2>1 DEF Map!MapNext
<1>7. CASE cmd = "put"
  <2>1. Question' = Question
    BY <1>4, <1>7 DEF Question
  <2>2. Map!Drop(c)
    BY <1>1, <1>3, <1>4, <1>5, <2>1 DEF Map!Drop, Question, KeyOf, Answered, Replies
  <2> QED
    BY <2>2 DEF Map!MapNext
<1> QED
  BY <1>6, <1>7

(* A call of a goroutine that looks up and saves ends: a lookup with a     *)
(* miss or with what was on its way, and a save without a reply.           *)
LEMMA MapEnd ==
    ASSUME IInv, Numbered, NEW c \in Clients, pc[c] \in {"unable", "failed", "await"},
           pc' = [pc EXCEPT ![c] = "idle"], call' = call, stdout' = stdout, store' = store,
           \A d \in Clients \ {c} : resc'[d] = resc[d],
           \/ reply' = NotFound(c)
           \/ /\ call[c].cmd = "get" /\ pc[c] = "await" /\ resc[c] # None
              /\ reply' = [reply EXCEPT ![c] = resc[c].out]
    PROVE  Map!MapNext
<1> USE ProgAssumption DEF ProgAssumption, Callers
<1>1. /\ ~Asking(c)' /\ (Asking(c) <=> call[c].cmd = "get")
      /\ \A d \in Clients \ {c} : Asking(d)' = Asking(d)
  BY DEF Asking, IInv, TypeOK
<1>2. Answered' = [Answered EXCEPT ![c] = None]
  <2>1. ASSUME NEW d \in Clients
        PROVE  Found(d)' = IF d = c THEN None ELSE Found(d)
    <3>1. CASE d = c
      BY <1>1, <3>1 DEF Found
    <3>2. CASE d # c
      BY <1>1, <3>2, SameWay, SameFound
    <3> QED
      BY <3>1, <3>2
  <2> QED
    BY <2>1 DEF Answered
<1>3. Question' = [Question EXCEPT ![c] = None]
  <2>1. ASSUME NEW d \in Clients
        PROVE  KeyOf(d)' = IF d = c THEN None ELSE KeyOf(d)
    <3>1. CASE d = c
      BY <1>1, <3>1 DEF KeyOf
    <3>2. CASE d # c
      BY <1>1, <3>2 DEF KeyOf
    <3> QED
      BY <3>1, <3>2
  <2> QED
    BY <2>1 DEF Question
<1>4. CASE call[c].cmd # "get"
  <2>1. Replies' = [Replies EXCEPT ![c] = None] /\ Question[c] = None
    BY <1>1, <1>4 DEF NotFound, Replies, Question, KeyOf, IInv, TypeOK
  <2>2. Question' = Question /\ Answered' = Answered
    <3>1. Answered[c] = None
      BY <1>1, <1>4, FoundNothing DEF Answered
    <3>2. [Question EXCEPT ![c] = None] = Question
      BY <2>1 DEF Question
    <3>3. [Answered EXCEPT ![c] = None] = Answered
      BY <3>1 DEF Answered
    <3> QED
      BY <1>2, <1>3, <3>2, <3>3
  <2>3. Map!Drop(c)
    BY <2>1, <2>2 DEF Map!Drop, Question, KeyOf, Answered, Replies
  <2> QED
    BY <2>3 DEF Map!MapNext
<1>5. CASE call[c].cmd = "get"
  <2>1. Question[c] # None
    BY <1>1, <1>5 DEF Question, KeyOf, IInv, Formed, WellFormed
  <2>2. \/ Replies' = [Replies EXCEPT ![c] = Miss]
        \/ Answered[c] # None /\ Replies' = [Replies EXCEPT ![c] = Answered[c]]
    <3>1. CASE reply' = NotFound(c)
      BY <1>5, <3>1 DEF NotFound, Replies, IInv, TypeOK
    <3>2. CASE /\ pc[c] = "await" /\ resc[c] # None
               /\ reply' = [reply EXCEPT ![c] = resc[c].out]
      <4>1. call[c].id # 0 /\ OnItsWay(c) = {resc[c].out} /\ resc[c].out \in Outputs \cup {Miss}
        <5>1. resc[c] \in Answers
          BY <3>2 DEF IInv, TypeOK
        <5> QED
          BY <3>2, <5>1 DEF Numbered, OnItsWay, Answers
      <4>2. resc[c].out # Miss => Answered[c] = resc[c].out /\ Answered[c] # None
        <5>1. None \notin Outputs \cup {Miss}
          OBVIOUS
        <5> QED
          BY <1>1, <1>5, <4>1, <5>1, FoundIt DEF Answered
      <4>3. Replies' = [Replies EXCEPT ![c] = resc[c].out]
        BY <3>2 DEF Replies, IInv, TypeOK
      <4> QED
        BY <4>2, <4>3
    <3> QED
      BY <3>1, <3>2
  <2>3. Map!Answer(c)
    BY <1>2, <1>3, <2>1, <2>2 DEF Map!Answer, Question, KeyOf, Answered, Replies
  <2> QED
    BY <2>3 DEF Map!MapNext
<1> QED
  BY <1>4, <1>5

(* The steps of a call between its begin and its end change nothing that   *)
(* CacheMap sees: an id that is new has no answer yet.                     *)
LEMMA MapRegister ==
    ASSUME IInv, Numbered, NEW c \in Callers, Register(c)
    PROVE  [Map!MapNext]_(Map!mapVars)
<1> USE ProgAssumption DEF ProgAssumption, Callers
<1>1. /\ pc[c] = "register" /\ pc' = [pc EXCEPT ![c] = "lock"]
      /\ call' = [call EXCEPT ![c].id = nextID + 1]
      /\ stdout' = stdout /\ resc' = resc /\ reply' = reply /\ store' = store
  BY DEF Register, NewID, Step, childVars
<1>2. /\ call' \in [Callers -> Requests] /\ call \in [Callers -> Requests]
      /\ call'[c].id = nextID + 1 /\ call'[c].cmd = call[c].cmd /\ call'[c].key = call[c].key
      /\ \A d \in Clients \ {c} : call'[d] = call[d]
  <2>1. nextID + 1 \in 0..MaxRequests
    BY IdLeft, <1>1 DEF IInv
  <2>2. call \in [Callers -> Requests] /\ call[c] \in Requests
    BY DEF IInv, TypeOK
  <2>3. [call[c] EXCEPT !.id = nextID + 1] \in Requests
    BY <2>1, <2>2 DEF Requests
  <2>4. /\ [call[c] EXCEPT !.id = nextID + 1].id = nextID + 1
        /\ [call[c] EXCEPT !.id = nextID + 1].cmd = call[c].cmd
        /\ [call[c] EXCEPT !.id = nextID + 1].key = call[c].key
    BY <2>2 DEF Requests
  <2>5. call' = [call EXCEPT ![c] = [call[c] EXCEPT !.id = nextID + 1]]
    BY <1>1
  <2> QED
    BY <2>2, <2>3, <2>4, <2>5
<1>3. \A d \in Clients : Asking(d)' = Asking(d) /\ KeyOf(d)' = KeyOf(d)
  <2>1. ASSUME NEW d \in Clients
        PROVE  Asking(d)' = Asking(d) /\ KeyOf(d)' = KeyOf(d)
    <3>1. CASE d = c
      BY <1>1, <1>2, <3>1 DEF Asking, KeyOf, IInv, TypeOK
    <3>2. CASE d # c
      BY <1>1, <1>2, <3>2 DEF Asking, KeyOf, IInv, TypeOK
    <3> QED
      BY <3>1, <3>2
  <2> QED
    BY <2>1
<1>4. ASSUME c \in Clients
      PROVE  Found(c)' = Found(c)
  <2>1. call[c].id = 0 /\ resc[c] = None
    BY <1>1, <1>4 DEF Numbered, IInv, Channels, ChannelOf
  <2>2. \A k \in DOMAIN stdout : stdout[k].id # nextID + 1
    <3>1. ASSUME NEW k \in DOMAIN stdout
          PROVE  stdout[k].id # nextID + 1
      <4>1. stdout[k].id <= nextID /\ nextID \in Nat
        BY DEF IInv, TypeOK, Timely, Asked
      <4>2. stdout \in Seq(Answers)
        BY DEF IInv, TypeOK
      <4>3. stdout[k] \in Answers
        BY <4>2
      <4>4. stdout[k].id \in Nat
        BY <4>3 DEF Answers
      <4> QED
        BY <4>1, <4>4
    <3> QED
      BY <3>1
  <2>3. FirstFor(call'[c].id, stdout) = {}
    BY <1>2, <2>2, FirstOfNone
  <2>4. OnItsWay(c)' = {}
    BY <1>1, <2>1, <2>3 DEF OnItsWay
  <2> QED
    BY <2>1, <2>4 DEF Found
<1>5. \A d \in Clients : Found(d)' = Found(d)
  BY <1>1, <1>2, <1>3, <1>4, SameWay, SameFound
<1> QED
  BY <1>1, <1>3, <1>5, QuietStep DEF Question, Answered, Replies

LEMMA MapQuietSteps ==
    ASSUME IInv, Numbered,
           \/ \E c \in Callers : \/ LockWriter(c) \/ Write(c) \/ WriteBody(c)
                               \/ WriteFails(c) \/ BodyErrorDropped(c)
           \/ BeginClose \/ CloserSteps \/ EndOfAnswers
           \/ ReadRequest \/ ChildExits \/ ChildDies \/ ChildLeaves
           \/ UNCHANGED vars
           \/ \E i \in Ids : Evict(i)
    PROVE  [Map!MapNext]_(Map!mapVars)
<1> USE ProgAssumption DEF ProgAssumption, Callers
<1>1. ASSUME NEW c \in Callers,
             LockWriter(c) \/ Write(c) \/ WriteBody(c) \/ WriteFails(c) \/ BodyErrorDropped(c)
      PROVE  [Map!MapNext]_(Map!mapVars)
  <2>1. /\ call' = call /\ stdout' = stdout /\ resc' = resc /\ reply' = reply /\ store' = store
        /\ pc[c] \in {"lock", "write", "body"}
        /\ \E to \in {"write", "body", "await", "failed"} : pc' = [pc EXCEPT ![c] = to]
    BY <1>1 DEF LockWriter, Write, WriteBody, Send, WriteFails, BodyErrorDropped, Step, childVars
  <2>2. \A d \in Clients : Asking(d)' = Asking(d)
    BY <2>1 DEF Asking, IInv, TypeOK
  <2> QED
    BY <2>1, <2>2, Unmoved, QuietStep
<1>2. CASE BeginClose \/ CloserSteps
  <2>1. /\ stdout' = stdout /\ reply' = reply /\ store' = store
        /\ resc' \in {resc, [resc EXCEPT ![Closer] = None]}
        /\ call' \in {call, [call EXCEPT ![Closer] = [NoRequest EXCEPT !.cmd = "close"]]}
        /\ \/ pc' = pc
           \/ \E to \in {"idle", "register", "cancel", "drain", "closed"} :
                 pc' = [pc EXCEPT ![Closer] = to]
    BY <1>2 DEF BeginClose, CloserSteps, Started, Cancel, CloseStdin, Closed, Step, childVars,
       callVars
  <2>2. \A d \in Clients : pc'[d] = pc[d] /\ call'[d] = call[d] /\ resc'[d] = resc[d]
    BY <2>1 DEF IInv, TypeOK
  <2>3. \A d \in Clients : Asking(d)' = Asking(d)
    BY <2>2 DEF Asking
  <2> QED
    BY <2>1, <2>2, <2>3, Unmoved, QuietStep
<1>3. CASE EndOfAnswers \/ ReadRequest \/ ChildExits \/ ChildDies \/ ChildLeaves \/ UNCHANGED vars
           \/ \E i \in Ids : Evict(i)
  <2>1. /\ call' = call /\ stdout' = stdout /\ resc' = resc /\ reply' = reply /\ pc' = pc
        /\ store' = store \/ \E i \in Ids : store' = [store EXCEPT ![i] = None]
    BY <1>3 DEF EndOfAnswers, ReadRequest, ChildExits, ChildDies, ChildLeaves, ChildGone, Evict, vars,
       childVars, callVars
  <2>2. \A d \in Clients : Asking(d)' = Asking(d)
    BY <2>1 DEF Asking
  <2> QED
    BY <2>1, <2>2, Unmoved, QuietStep
<1> QED
  BY <1>1, <1>2, <1>3

(* An answer that is handed over is still on its way, to one goroutine;    *)
(* one that nobody waits for was on its way to nobody.                     *)
LEMMA MapDeliver ==
    ASSUME IInv, Numbered, Deliver
    PROVE  [Map!MapNext]_(Map!mapVars)
<1> USE ProgAssumption DEF ProgAssumption, Callers
<1> DEFINE a == Head(stdout)
<1>1. /\ call' = call /\ pc' = pc /\ reply' = reply /\ store' = store
      /\ stdout' = Tail(stdout) /\ stdout # <<>>
      /\ \/ inFlight[a.id] # None /\ resc' = [resc EXCEPT ![inFlight[a.id]] = a]
         \/ inFlight[a.id] = None /\ resc' = resc
  BY DEF Deliver, childVars
<1>2. stdout \in Seq(Answers) /\ a \in Answers /\ a.id \in 0..MaxRequests /\ a # None
  <2>1. stdout \in Seq(Answers) /\ a \in Answers
    BY <1>1, Shifted DEF IInv, TypeOK
  <2> QED
    BY <2>1, NoneAssumption DEF Answers
<1> HIDE DEF a
<1>3. \A d \in Clients : Asking(d)' = Asking(d)
  BY <1>1 DEF Asking
<1>4. ASSUME NEW d \in Clients, Asking(d), call[d].id # 0
      PROVE  OnItsWay(d)' = OnItsWay(d)
  <2>1. CASE resc[d] # None
    <3>1. inFlight[a.id] # d
      <4>1. inFlight[a.id] = d => call[d].id = a.id /\ Registered(d)
        BY <1>2 DEF IInv, Channels, IdOf, Registered
      <4>2. ~Registered(d) /\ d # None
        BY <2>1 DEF IInv, TypeOK, Phases, Channels, ChannelOf
      <4> QED
        BY <4>1, <4>2
    <3>2. resc'[d] = resc[d]
      BY <1>1, <3>1 DEF IInv, TypeOK
    <3> QED
      BY <1>1, <2>1, <3>2, SameWay
  <2>2. CASE resc[d] = None
    <3>1. inFlight[call[d].id] = d /\ call[d].id \in 0..MaxRequests
      BY <1>4, <2>2, Waiting
    <3>2. FirstFor(call[d].id, stdout)
          = IF a.id = call[d].id THEN {a.out} ELSE FirstFor(call[d].id, stdout')
      BY <1>1, <1>2, FirstTaken DEF a
    <3>3. CASE a.id = call[d].id
      <4>1. resc'[d] = a
        BY <1>1, <3>1, <3>3 DEF IInv, TypeOK
      <4> QED
        BY <1>2, <2>2, <3>2, <3>3, <4>1 DEF OnItsWay
    <3>4. CASE a.id # call[d].id
      <4>1. inFlight[a.id] # d
        BY <1>2, <3>4 DEF IInv, Channels, IdOf
      <4>2. resc'[d] = resc[d]
        BY <1>1, <4>1 DEF IInv, TypeOK
      <4> QED
        BY <1>1, <3>2, <3>4, <4>2, SameWay
    <3> QED
      BY <3>3, <3>4
  <2> QED
    BY <2>1, <2>2
<1>5. \A d \in Clients : Found(d)' = Found(d)
  BY <1>1, <1>3, <1>4, SameFound
<1>6. Question' = Question
  BY <1>1, <1>3, SameQuestions
<1> QED
  BY <1>1, <1>5, <1>6, QuietStep DEF Answered, Replies

(* The child looks up in the moment that it answers.                       *)
LEMMA MapAnswer ==
    ASSUME MapInv, NEW r \in pending, AnswerRequest(r)
    PROVE  [Map!MapNext]_(Map!mapVars)
<1> USE ProgAssumption DEF ProgAssumption, Callers
<1>1. /\ call' = call /\ pc' = pc /\ reply' = reply /\ resc' = resc
      /\ stdout \in Seq(Answers) /\ r \in Requests /\ WellFormed(r) /\ Current(r)
      /\ store' = IF r.cmd = "put" THEN [store EXCEPT ![r.key] = r.out] ELSE store
  BY DEF AnswerRequest, callVars, MapInv, IInv, TypeOK, Formed, Faithful
<1>2. PICK out \in {Miss} \cup (IF r.cmd = "get" THEN {Stored(r)} ELSE {}) :
         stdout' = Append(stdout, [id |-> r.id, out |-> out])
  BY DEF AnswerRequest
<1> DEFINE a == [id |-> r.id, out |-> out]
<1>3. /\ a \in Answers /\ a.id = r.id /\ a.out = out
      /\ out # Miss => r.cmd = "get" /\ store'= store /\ out = store[r.key] /\ out # None
  <2>1. Stored(r) = Miss \/ (Stored(r) = store[r.key] /\ store[r.key] # None)
    BY DEF Stored
  <2>2. r.cmd = "get" => r.key \in Ids /\ store[r.key] \in Outputs \cup {None}
    BY <1>1 DEF WellFormed, MapInv, IInv, TypeOK
  <2>3. out \in Outputs \cup {Miss}
    BY <2>1, <2>2
  <2>4. r.id \in 0..MaxRequests
    BY <1>1 DEF Requests
  <2> QED
    BY <1>1, <2>1, <2>3, <2>4 DEF Answers
<1>4. stdout' = Append(stdout, a)
  BY <1>2
<1> HIDE DEF a
<1>5. \A d \in Clients : Asking(d)' = Asking(d)
  BY <1>1 DEF Asking
<1>6. Question' = Question /\ Replies' = Replies
  BY <1>1, <1>5, SameQuestions DEF Replies
(* The answer is new to d if d waits for it and has none on its way. *)
<1> DEFINE New(d) == /\ Asking(d) /\ call[d].id # 0 /\ resc[d] = None /\ call[d].id = r.id
                     /\ \A k \in 1..Len(stdout) : stdout[k].id # r.id
<1>7. ASSUME NEW d \in Clients, ~New(d)
      PROVE  Found(d)' = Found(d)
  <2>1. ASSUME Asking(d), call[d].id # 0
        PROVE  OnItsWay(d)' = OnItsWay(d)
    <3>1. CASE resc[d] # None
      BY <1>1, <3>1, SameWay
    <3>2. CASE resc[d] = None
      <4>1. ~(a.id = call[d].id /\ \A k \in 1..Len(stdout) : stdout[k].id # call[d].id)
        BY <1>3, <1>7, <2>1, <3>2
      <4>2. FirstFor(call[d].id, stdout') = FirstFor(call[d].id, stdout)
        BY <1>1, <1>3, <1>4, <4>1, FirstAppended
      <4> QED
        BY <1>1, <4>2, SameWay
    <3> QED
      BY <3>1, <3>2
  <2> QED
    BY <1>1, <1>5, <2>1, SameFound
<1>8. ASSUME NEW d \in Clients, New(d)
      PROVE  /\ Found(d) = None /\ Found(d)' = (IF out = Miss THEN None ELSE out)
             /\ call[d] = r /\ inFlight[r.id] = d
  <2>1. inFlight[r.id] = d /\ call[d] = r
    <3>1. inFlight[call[d].id] = d
      BY <1>8, Waiting DEF MapInv
    <3> QED
      BY <1>1, <1>8, <3>1 DEF Current
  <2>2. OnItsWay(d) = {} /\ OnItsWay(d)' = {out}
    <3>1. DOMAIN stdout = 1..Len(stdout)
      BY <1>1
    <3>2. FirstFor(call[d].id, stdout) = {}
      BY <1>8, <3>1, FirstOfNone
    <3>3. FirstFor(call[d].id, stdout') = {out}
      BY <1>1, <1>3, <1>4, <1>8, FirstAppended
    <3> QED
      BY <1>1, <1>8, <3>2, <3>3 DEF OnItsWay
  <2>3. Asking(d)' /\ call'[d].id # 0
    BY <1>1, <1>5, <1>8
  <2>4. Found(d)' = IF out = Miss THEN None ELSE out
    BY <2>2, <2>3 DEF Found
  <2> QED
    BY <2>1, <2>2, <2>4, FoundNothing
<1> HIDE DEF New
<1>9. CASE out = Miss \/ \A d \in Clients : ~New(d)
  <2>1. \A d \in Clients : Found(d)' = Found(d)
    BY <1>7, <1>8, <1>9
  <2>2. store' = store \/ \E i \in Ids, o \in Outputs : store' = [store EXCEPT ![i] = o]
    BY <1>1 DEF WellFormed
  <2> QED
    BY <1>6, <2>1, <2>2, QuietStep DEF Answered
<1>10. CASE out # Miss /\ \E d \in Clients : New(d)
  <2>1. PICK c \in Clients : New(c)
    BY <1>10
  <2>2. \A d \in Clients \ {c} : ~New(d)
    BY <1>8, <2>1
  <2>3. Answered' = [Answered EXCEPT ![c] = out]
    <3>1. \A d \in Clients : Found(d)' = IF d = c THEN out ELSE Found(d)
      BY <1>7, <1>8, <1>10, <2>1, <2>2
    <3> QED
      BY <3>1 DEF Answered
  <2>4. Question[c] = r.key /\ r.key # None /\ store[r.key] = out
    <3>1. Asking(c) /\ call[c] = r
      BY <1>8, <2>1 DEF New
    <3>2. r.key \in Ids
      BY <1>1, <1>3, <1>10 DEF WellFormed
    <3> QED
      BY <1>3, <1>10, <3>1, <3>2 DEF Question, KeyOf
  <2>5. Map!LookUp(c)
    BY <1>3, <1>6, <1>10, <2>3, <2>4 DEF Map!LookUp, Question, KeyOf, Answered, Replies
  <2> QED
    BY <2>5 DEF Map!MapNext
<1> QED
  BY <1>9, <1>10

LEMMA MapCallEnds ==
    ASSUME MapInv, NEW c \in Callers, Unable(c) \/ Unregister(c) \/ Return(c)
    PROVE  [Map!MapNext]_(Map!mapVars)
<1> USE ProgAssumption DEF ProgAssumption, Callers
<1>1. /\ pc[c] \in {"unable", "failed", "await"} /\ call' = call /\ stdout' = stdout /\ store' = store
      /\ pc' = [pc EXCEPT ![c] = "idle"] \/ pc' = [pc EXCEPT ![c] = AfterCall(c)]
      /\ resc' \in {resc, [resc EXCEPT ![c] = None]}
      /\ \/ reply' = NotFound(c)
         \/ /\ call[c].cmd = "get" /\ pc[c] = "await" /\ resc[c] # None
            /\ reply' = [reply EXCEPT ![c] = resc[c].out]
  BY DEF Unable, Unregister, Return, Step, callVars, childVars
<1>2. \A d \in Callers \ {c} : resc'[d] = resc[d] /\ reply'[d] = reply[d] /\ pc'[d] = pc[d]
  BY <1>1 DEF NotFound, MapInv, IInv, TypeOK
<1>3. CASE c \in Clients
  <2>1. AfterCall(c) = "idle"
    BY <1>3 DEF AfterCall
  <2> QED
    BY <1>1, <1>2, <1>3, <2>1, MapEnd DEF MapInv
<1>4. CASE c = Closer
  <2>1. \A d \in Clients : Asking(d)' = Asking(d)
    BY <1>1, <1>2, <1>4 DEF Asking
  <2>2. \A d \in Clients : resc'[d] = resc[d] /\ reply'[d] = reply[d]
    BY <1>2, <1>4
  <2> QED
    BY <1>1, <2>1, <2>2, Unmoved, QuietStep
<1> QED
  BY <1>3, <1>4

(* Whatever the child does, its cache is the map that the cache on disk is *)
(* too: a lookup misses, or returns what was stored under its id during    *)
(* the call.                                                               *)
THEOREM ProgCacheIsAMap == Spec => ImplementsMap
<1>1. Init => Map!MapInit
  <2> SUFFICES ASSUME Init
               PROVE  Map!MapInit
    OBVIOUS
  <2>1. \A c \in Clients : ~Asking(c) /\ reply[c] = None
    BY ProgAssumption DEF ProgAssumption, Init, Callers, Asking
  <2>2. \A c \in Clients : Found(c) = None
    BY <2>1, FoundNothing
  <2> QED
    BY <2>1, <2>2 DEF Init, Map!MapInit
<1>2. MapInv /\ [Next]_vars => [Map!MapNext]_(Map!mapVars)
  <2> SUFFICES ASSUME MapInv, [Next]_vars
               PROVE  [Map!MapNext]_(Map!mapVars)
    OBVIOUS
  <2> USE DEF MapInv
  <2>1. ASSUME NEW c \in Clients, NEW cmd \in {"get", "put"}, NEW i \in Ids, NEW o,
               Begin(c, cmd, i, o)
        PROVE  Map!MapNext
    BY <2>1, MapBegin
  <2>2. ASSUME NEW c \in Callers, Steps(c)
        PROVE  [Map!MapNext]_(Map!mapVars)
    BY <2>2, MapRegister, MapCallEnds, MapQuietSteps DEF Steps
  <2>3. CASE \/ BeginClose \/ CloserSteps \/ EndOfAnswers
             \/ ReadRequest \/ ChildExits \/ ChildDies \/ ChildLeaves
             \/ UNCHANGED vars
             \/ \E i \in Ids : Evict(i)
    BY <2>3, MapQuietSteps
  <2> QED
    BY <2>1, <2>2, <2>3, MapDeliver, MapAnswer DEF Next, Serve
<1> QED
  BY <1>1, <1>2, MapInvHolds, PTL DEF Spec, ImplementsMap, Map!MapSpec
=============================================================================
