----------------------------- MODULE ProgCache -----------------------------
(***************************************************************************)
(* The low-level cache behind a child process (GOLANGCI_LINT_CACHEPROG):   *)
(* goroutines write requests to its standard input, one goroutine reads    *)
(* answers, in any order, from its standard output, and hands each to the  *)
(* goroutine that waits for its id.  Pipes hold a bounded number of        *)
(* messages, and the child may die, answer late, or answer twice.          *)
(***************************************************************************)
EXTENDS Integers, Sequences, FiniteSets

CONSTANTS
    Ids,            \* action ids
    Outputs,        \* contents that can be stored
    Clients,        \* goroutines that look up and save
    Closer,         \* the goroutine that closes the cache in the end
    IoTokens,       \* capacity of Cache.ioSem
    PipeSize,       \* messages that fit into a pipe
    MaxRequests,    \* bound on the number of requests
    Abilities,      \* the sets of commands that a child may declare
    Faults,         \* subset of {"die", "leave", "repeat"}
    Miss,           \* an answer without a usable output
    None

Callers == Clients \cup {Closer}

ASSUME ProgAssumption ==
    /\ IsFiniteSet(Clients) /\ Closer \notin Clients
    /\ IoTokens \in Nat \ {0} /\ PipeSize \in Nat \ {0} /\ MaxRequests \in Nat \ {0}
    /\ Abilities \subseteq SUBSET {"get", "put", "close"}
    /\ Faults \subseteq {"die", "leave", "repeat"}
    /\ {Miss, None} \cap (Ids \cup Outputs \cup Callers) = {} /\ Miss # None

VARIABLES
    can,        \* the commands the child has declared, or None
    pc,         \* pc[c]: where c is
    call,       \* call[c]: the request of c
    nextID,     \* the id of the last request
    inFlight,   \* inFlight[n]: the caller whose channel waits for answer n, or None
    writeMu,    \* the holder of writeMu, or None
    resc,       \* resc[c]: what is in the channel of c, or None
    reply,      \* reply[c]: what the last lookup of c has found
    closing,    \* Close was called
    cancelled,  \* the context is cancelled
    readLoop,   \* "running" or "done"
    fatal,      \* log.Fatalf has ended the process
    child,      \* "running", or "exited" with both pipes closed
    stdin,      \* messages on their way to the child
    eof,        \* stdin was closed
    head,       \* the request whose body the child expects, or None
    pending,    \* requests the child has read and not answered
    store,      \* store[i]: the output the child keeps for i, or None
    stdout      \* answers on their way back

callVars  == <<call, nextID, inFlight, writeMu>>
closeVars == <<can, closing, cancelled, readLoop, fatal, eof>>
childVars == <<child, head, pending, store>>
vars == <<callVars, closeVars, childVars, pc, resc, reply, stdin, stdout>>

NoRequest == [id |-> 0, cmd |-> "start", key |-> None, out |-> None]
Requests ==
    [id: 0..MaxRequests, cmd: {"start", "get", "put", "close"},
     key: Ids \cup {None}, out: Outputs \cup {None}]
Answers == [id: 0..MaxRequests, out: Outputs \cup {Miss}]

ASSUME NoneAssumption == None \notin Requests \cup Answers

TypeOK ==
    /\ can \in Abilities \cup {None}
    /\ pc \in [Callers -> {"starting", "idle", "register", "unable", "lock", "write", "body",
                           "await", "failed", "cancel", "drain", "closed"}]
    /\ call \in [Callers -> Requests]
    /\ nextID \in 0..MaxRequests
    /\ inFlight \in [0..MaxRequests -> Callers \cup {None}]
    /\ writeMu \in Callers \cup {None}
    /\ resc \in [Callers -> Answers \cup {None}]
    /\ reply \in [Callers -> Outputs \cup {Miss, None}]
    /\ closing \in BOOLEAN /\ cancelled \in BOOLEAN /\ fatal \in BOOLEAN /\ eof \in BOOLEAN
    /\ readLoop \in {"running", "done"} /\ child \in {"running", "exited"}
    /\ stdin \in Seq(Requests \X {"head", "body"}) /\ Len(stdin) <= PipeSize
    /\ head \in Requests \cup {None}
    /\ pending \subseteq Requests
    /\ store \in [Ids -> Outputs \cup {None}]
    /\ stdout \in Seq(Answers) /\ Len(stdout) <= PipeSize

(* startCacheProg has started the child and waits for answer 0.            *)
Init ==
    /\ can = None
    /\ pc = [c \in Callers |-> IF c = Closer THEN "starting" ELSE "idle"]
    /\ call = [c \in Callers |-> NoRequest]
    /\ nextID = 0
    /\ inFlight = [n \in 0..MaxRequests |-> IF n = 0 THEN Closer ELSE None]
    /\ writeMu = None
    /\ resc = [c \in Callers |-> None]
    /\ reply = [c \in Callers |-> None]
    /\ closing = FALSE /\ cancelled = FALSE /\ fatal = FALSE /\ eof = FALSE
    /\ readLoop = "running" /\ child = "running"
    /\ stdin = <<>> /\ stdout = <<>>
    /\ head = None
    /\ pending = {NoRequest}
    /\ store \in [Ids -> Outputs \cup {None}]

-----------------------------------------------------------------------------
Step(c, from, to) == ~fatal /\ pc[c] = from /\ pc' = [pc EXCEPT ![c] = to]

(* startCacheProg has its answer: it gives up on a child that can nothing. *)
Started ==
    /\ Step(Closer, "starting", "idle")
    /\ resc[Closer] # None
    /\ \E cmds \in Abilities :
         /\ can' = cmds
         /\ fatal' = (cmds = {})
    /\ resc' = [resc EXCEPT ![Closer] = None]
    /\ UNCHANGED <<callVars, childVars, closing, cancelled, readLoop, eof, reply, stdin, stdout>>

Busy == {c \in Clients : pc[c] # "idle"}

(* A lookup or save takes a token of ioSem.  The bound on the requests     *)
(* leaves one to the Closer.                                               *)
Begin(c, cmd, key, out) ==
    /\ can # None /\ ~closing
    /\ Cardinality(Busy) < IoTokens
    /\ nextID + Cardinality({d \in Clients : pc[d] = "register"}) < MaxRequests - 1
    /\ Step(c, "idle", IF cmd \in can THEN "register" ELSE "unable")
    /\ reply' = [reply EXCEPT ![c] = None]
    /\ call' = [call EXCEPT ![c] = [id |-> 0, cmd |-> cmd, key |-> key, out |-> out]]
    /\ UNCHANGED <<nextID, inFlight, writeMu, closeVars, childVars, resc, stdin, stdout>>

(* Close, called when the goroutines that look up and save are done.       *)
BeginClose ==
    /\ can # None /\ Busy = {}
    /\ Step(Closer, "idle", IF "close" \in can THEN "register" ELSE "cancel")
    /\ closing' = TRUE
    /\ call' = [call EXCEPT ![Closer] = [NoRequest EXCEPT !.cmd = "close"]]
    /\ UNCHANGED <<nextID, inFlight, writeMu, can, cancelled, readLoop, fatal, eof,
                   childVars, resc, reply, stdin, stdout>>

(* Mutant of NewID: the counter is read before mu is taken. *)
NewIDStale == IF \E c \in Callers : pc[c] \in {"lock", "write"} THEN nextID ELSE nextID + 1

(* Mutant of NewID: the counter goes up before and after mu is taken. *)
NewIDTwice == nextID + 2

NewID == nextID + 1

(* The section of writeToChild under mu. *)
Register(c) ==
    /\ Step(c, "register", "lock")
    /\ nextID' = NewID
    /\ call' = [call EXCEPT ![c].id = NewID]
    /\ inFlight' = [inFlight EXCEPT ![NewID] = c]
    /\ UNCHANGED <<writeMu, closeVars, childVars, resc, reply, stdin, stdout>>

(* Mutant of MayWrite: writeMu is not taken. *)
MayWriteAnyway(c) == TRUE

MayWrite(c) == writeMu = None

LockWriter(c) ==
    /\ MayWrite(c)
    /\ Step(c, "lock", "write")
    /\ writeMu' = c
    /\ UNCHANGED <<call, nextID, inFlight, closeVars, childVars, resc, reply, stdin, stdout>>

Connected == child = "running" /\ ~eof

(* The request and, if it has one, its body are flushed to the pipe.       *)
Send(c, from, part, to) ==
    /\ Connected /\ Len(stdin) < PipeSize
    /\ Step(c, from, to)
    /\ stdin' = Append(stdin, <<call[c], part>>)
    /\ writeMu' = IF to = "await" THEN None ELSE writeMu
    /\ UNCHANGED <<call, nextID, inFlight, closeVars, childVars, resc, reply, stdout>>

Write(c) == Send(c, "write", "head", IF call[c].cmd = "put" THEN "body" ELSE "await")
WriteBody(c) == Send(c, "body", "body", "await")

WriteFails(c) ==
    /\ ~Connected
    /\ Step(c, "write", "failed") \/ Step(c, "body", "failed")
    /\ writeMu' = None
    /\ UNCHANGED <<call, nextID, inFlight, closeVars, childVars, resc, reply, stdin, stdout>>

(* An error of the encoder's Close is not returned: c waits for an answer. *)
BodyErrorDropped(c) ==
    /\ ~Connected
    /\ Step(c, "body", "await")
    /\ writeMu' = None
    /\ UNCHANGED <<call, nextID, inFlight, closeVars, childVars, resc, reply, stdin, stdout>>

(* The end of a call: a client gives its token back, Close goes on.        *)
AfterCall(c) == IF c = Closer THEN "cancel" ELSE "idle"

NotFound(c) == [reply EXCEPT ![c] = IF call[c].cmd = "get" THEN Miss ELSE None]

(* A command the child has not declared is not sent: a Get misses, a Put   *)
(* does nothing.                                                           *)
Unable(c) ==
    /\ Step(c, "unable", "idle")
    /\ reply' = NotFound(c)
    /\ UNCHANGED <<callVars, closeVars, childVars, resc, stdin, stdout>>

Unregister(c) ==
    /\ Step(c, "failed", AfterCall(c))
    /\ inFlight' = [inFlight EXCEPT ![call[c].id] = None]
    /\ reply' = NotFound(c)
    /\ UNCHANGED <<call, nextID, writeMu, closeVars, childVars, resc, stdin, stdout>>

(* Mutant of Return: a channel that is used again keeps its last answer. *)
ReturnKeeps(c) ==
    /\ resc[c] # None
    /\ Step(c, "await", AfterCall(c))
    /\ \/ reply' = NotFound(c)
       \/ call[c].cmd = "get" /\ reply' = [reply EXCEPT ![c] = resc[c].out]
    /\ UNCHANGED <<callVars, closeVars, childVars, resc, stdin, stdout>>

(* GetBytes checks the hash of the file that a hit has named.              *)
Return(c) ==
    /\ resc[c] # None
    /\ Step(c, "await", AfterCall(c))
    /\ resc' = [resc EXCEPT ![c] = None]
    /\ \/ reply' = NotFound(c)
       \/ call[c].cmd = "get" /\ reply' = [reply EXCEPT ![c] = resc[c].out]
    /\ UNCHANGED <<callVars, closeVars, childVars, stdin, stdout>>

(* The context ends only after the exchange of Close. *)
Cancel ==
    /\ Step(Closer, "cancel", "drain")
    /\ cancelled' = TRUE
    /\ UNCHANGED <<callVars, can, closing, readLoop, fatal, eof, childVars, resc, reply, stdin, stdout>>

(* exec.Cmd closes stdin when the context ends: cmd.Cancel is in.Close.    *)
CloseStdin ==
    /\ ~fatal /\ cancelled /\ ~eof
    /\ eof' = TRUE
    /\ UNCHANGED <<callVars, can, closing, cancelled, readLoop, fatal, childVars, pc, resc, reply, stdin, stdout>>

Closed ==
    /\ readLoop = "done"
    /\ Step(Closer, "drain", "closed")
    /\ UNCHANGED <<callVars, closeVars, childVars, resc, reply, stdin, stdout>>

-----------------------------------------------------------------------------
Looping == ~fatal /\ readLoop = "running"

(* An answer goes to the buffered channel of whoever has registered its    *)
(* id; an answer to nobody ends the process.                               *)
Deliver ==
    /\ Looping /\ stdout # <<>>
    /\ LET n == Head(stdout).id IN
         \/ /\ inFlight[n] # None
            /\ resc' = [resc EXCEPT ![inFlight[n]] = Head(stdout)]
            /\ inFlight' = [inFlight EXCEPT ![n] = None]
            /\ UNCHANGED fatal
         \/ /\ inFlight[n] = None
            /\ fatal' = TRUE
            /\ UNCHANGED <<resc, inFlight>>
    /\ stdout' = Tail(stdout)
    /\ UNCHANGED <<call, nextID, writeMu, can, closing, cancelled, readLoop, eof, childVars, pc, reply, stdin>>

(* Mutant of QuietEnd: the end of the child is never fatal. *)
QuietEndAlways == TRUE

QuietEnd == closing

EndOfAnswers ==
    /\ Looping /\ stdout = <<>> /\ child = "exited"
    /\ fatal' = ~QuietEnd
    /\ readLoop' = "done"
    /\ UNCHANGED <<callVars, can, closing, cancelled, eof, childVars, pc, resc, reply, stdin, stdout>>

-----------------------------------------------------------------------------
ReadRequest ==
    /\ child = "running" /\ stdin # <<>>
    /\ LET r == Head(stdin)[1] IN
         IF Head(stdin)[2] = "head" /\ r.cmd = "put"
         THEN head' = r /\ UNCHANGED pending
         ELSE head' = None /\ pending' = pending \cup {r}
    /\ stdin' = Tail(stdin)
    /\ UNCHANGED <<callVars, closeVars, child, store, pc, resc, reply, stdout>>

Stored(r) == IF store[r.key] # None THEN store[r.key] ELSE Miss

(* The child serves a request it has read, any of them, and it may refuse; *)
(* a child with the fault "repeat" answers twice.                          *)
AnswerRequest(r) ==
    /\ child = "running" /\ r \in pending /\ Len(stdout) < PipeSize
    /\ \E out \in {Miss} \cup (IF r.cmd = "get" THEN {Stored(r)} ELSE {}) :
         stdout' = Append(stdout, [id |-> r.id, out |-> out])
    /\ store' = IF r.cmd = "put" THEN [store EXCEPT ![r.key] = r.out] ELSE store
    /\ pending' \in {pending \ {r}} \cup (IF "repeat" \in Faults THEN {pending} ELSE {})
    /\ UNCHANGED <<callVars, closeVars, child, head, pc, resc, reply, stdin>>

Evict(i) ==
    /\ child = "running"
    /\ store' = [store EXCEPT ![i] = None]
    /\ UNCHANGED <<callVars, closeVars, child, head, pending, pc, resc, reply, stdin, stdout>>

ChildGone ==
    /\ child' = "exited"
    /\ stdin' = <<>> /\ head' = None /\ pending' = {}
    /\ UNCHANGED <<callVars, closeVars, store, pc, resc, reply, stdout>>

(* At the end of its input a child exits when it has answered all. *)
ChildExits == child = "running" /\ eof /\ stdin = <<>> /\ pending = {} /\ ChildGone

(* A child may die, or leave when it is told to close and say nothing.     *)
ChildDies == child = "running" /\ "die" \in Faults /\ ChildGone

ChildLeaves ==
    /\ child = "running" /\ "leave" \in Faults
    /\ \E r \in pending : r.cmd = "close"
    /\ ChildGone

Steps(c) ==
    \/ Unable(c) \/ Register(c) \/ LockWriter(c) \/ Write(c) \/ WriteBody(c) \/ WriteFails(c)
    \/ BodyErrorDropped(c) \/ Unregister(c) \/ Return(c)

CloserSteps == Started \/ Cancel \/ CloseStdin \/ Closed
Serve == ReadRequest \/ (\E r \in pending : AnswerRequest(r)) \/ ChildExits

Next ==
    \/ \E c \in Clients, i \in Ids : Begin(c, "get", i, None)
    \/ \E c \in Clients, i \in Ids, o \in Outputs : Begin(c, "put", i, o)
    \/ \E c \in Callers : Steps(c)
    \/ BeginClose \/ CloserSteps
    \/ Deliver \/ EndOfAnswers
    \/ Serve \/ ChildDies \/ ChildLeaves
    \/ \E i \in Ids : Evict(i)

Spec == Init /\ [][Next]_vars

(* Goroutines run, and a child that runs reads its input and answers.      *)
FairSpec ==
    /\ Spec
    /\ \A c \in Callers : WF_vars(Steps(c))
    /\ WF_vars(Started) /\ WF_vars(Cancel) /\ WF_vars(CloseStdin) /\ WF_vars(Closed)
    /\ WF_vars(Deliver) /\ WF_vars(EndOfAnswers)
    /\ WF_vars(ReadRequest) /\ WF_vars(ChildExits)
    /\ \A n \in 0..MaxRequests : WF_vars(\E r \in pending : r.id = n /\ AnswerRequest(r))

-----------------------------------------------------------------------------
(* "ProgResponses can be sent in any order": whatever the order, a lookup  *)
(* returns what the child kept under its id during the call, or nothing;   *)
(* the child implements the same map as the cache on disk.                 *)
Asking(c) == pc[c] \notin {"idle", "starting", "cancel", "drain", "closed"} /\ call[c].cmd = "get"

(* What is on its way to c: of two answers only the first can reach it.    *)
FirstFor(n, answers) ==
    {answers[k].out : k \in {m \in DOMAIN answers :
        answers[m].id = n /\ \A j \in 1..(m - 1) : answers[j].id # n}}

OnItsWay(c) == IF resc[c] # None THEN {resc[c].out} ELSE FirstFor(call[c].id, stdout)

Found(c) ==
    IF Asking(c) /\ call[c].id # 0 /\ OnItsWay(c) \notin {{}, {Miss}}
    THEN CHOOSE o \in OnItsWay(c) : TRUE ELSE None

Map == INSTANCE CacheMap WITH
          content <- store,
          asked   <- [c \in Clients |-> IF Asking(c) THEN call[c].key ELSE None],
          found   <- [c \in Clients |-> Found(c)],
          reply   <- [c \in Clients |-> reply[c]]

ImplementsMap == Map!MapSpec

(* The messages of one request follow each other: the child never takes a  *)
(* request for the body of another.                                        *)
FramesIntact ==
    child = "running" /\ stdin # <<>> =>
       IF head = None THEN Head(stdin)[2] = "head" ELSE Head(stdin) = <<head, "body">>

(* Whoever waits for an answer is registered, or has it: an answer is      *)
(* never sent to another goroutine, nor is one waited for by two.          *)
WaitersRegistered ==
    \A c \in Callers : pc[c] = "await" => (inFlight[call[c].id] = c) # (resc[c] # None)

(* A lookup or save returns, or the process ends with a message, even if   *)
(* the child dies at any moment.  So does Close, unless the child went     *)
(* without an answer to it.                                                *)
CallsReturn == \A c \in Clients : pc[c] # "idle" ~> pc[c] = "idle" \/ fatal

CloseReturns ==
    closing ~> pc[Closer] = "closed" \/ fatal
                 \/ (child = "exited" /\ pc[Closer] = "await")

EveryoneReturns == CallsReturn /\ CloseReturns
=============================================================================
