-------------------------- MODULE DiskCacheProofs --------------------------
(***************************************************************************)
(* Proofs about DiskCache for every number of clients, ids and outputs:    *)
(* types, the refinement of CacheMap, without I/O errors and trims the     *)
(* completeness of what the index names, and that trims keep what is used. *)
(***************************************************************************)
EXTENDS DiskCacheRecency, TLAPS

PutPhases == {"stat", "hash", "open", "copy", "commit",
              "indexOpen", "indexWrite", "indexRemove", "indexTouch"}

(* What the phase of a client says of the id and the output it is about.   *)
PhaseOK ==
    \A c \in Clients :
        /\ pc[c] \in PutPhases => id[c] \in Ids /\ out[c] \in Outputs
        /\ pc[c] \in Reading => id[c] \in Ids
        /\ pc[c] \in Reading \ {"lookup"} => out[c] \in Outputs
        /\ pc[c] \in {"idle", "lookup"} => out[c] = None
        /\ pc[c] = "trimRemove" => Doomed(c) \in Files

Inv == TypeOK /\ PhaseOK

USE DEF IndexFile, DataFile

LEMMA FilesFact ==
    /\ \A i \in Ids : IndexFile(i) \in Files
    /\ \A o \in Outputs : DataFile(o) \in Files
    /\ \A i \in Ids, o \in Outputs : IndexFile(i) # DataFile(o)
    /\ \A f \in Files : \/ \E i \in Ids : f = IndexFile(i)
                        \/ \E o \in Outputs : f = DataFile(o)
BY DEF Files

LEMMA MaxAgeFact == MaxAge \in Nat /\ 0 \in 0..MaxAge
BY CacheAssumption DEF CacheAssumption, MaxAge

LEMMA InitInv == Init => Inv
<1> SUFFICES ASSUME Init PROVE Inv
    OBVIOUS
<1>1. TypeOK
  <2>1. <<>> \in Seq({"good", "bad"})
    OBVIOUS
  <2>2. blocks \in [Outputs -> Seq({"good", "bad"})]
    BY <2>1, CacheAssumption DEF CacheAssumption, Init
  <2>3. MaxAge \in 0..MaxAge
    BY MaxAgeFact
  <2>4. age \in [Files -> 0..MaxAge \cup {None}] /\ trimAge \in 0..MaxAge
    BY <2>3 DEF Init
  <2> QED
    BY <2>2, <2>4 DEF Init, TypeOK, Phases
<1>2. PhaseOK
  BY DEF Init, PhaseOK, PutPhases, Reading
<1> QED
  BY <1>1, <1>2 DEF Inv

(* The types of what Return, Unlink, Touch and Used assign.                *)
LEMMA ReturnType ==
    ASSUME TypeOK, NEW c \in Clients, Return(c)
    PROVE  /\ pc' \in [Clients -> Phases] /\ id' \in [Clients -> Ids \cup {None}]
           /\ out' \in [Clients -> Outputs \cup {None}]
           /\ seen' \in [Clients -> Nat \cup {None}]
           /\ written' \in [Clients -> Nat] /\ todo' \in [Clients -> SUBSET Files]
BY DEF TypeOK, Return, Goto, Phases

LEMMA ReturnPhase ==
    ASSUME Inv, NEW c \in Clients, Return(c)
    PROVE  PhaseOK'
BY DEF Inv, TypeOK, PhaseOK, Return, Goto, PutPhases, Reading, Doomed

LEMMA UnlinkType ==
    ASSUME TypeOK, NEW f \in Files, Unlink(f)
    PROVE  /\ index' \in [Ids -> Outputs \cup {None}]
           /\ blocks' \in [Outputs -> Seq({"good", "bad"})]
           /\ age' \in [Files -> 0..MaxAge \cup {None}]
<1>1. <<>> \in Seq({"good", "bad"})
  OBVIOUS
<1> QED
  BY <1>1 DEF TypeOK, Unlink

LEMMA AgeType ==
    ASSUME TypeOK, NEW f \in Files
    PROVE  /\ Touch(f) => age' \in [Files -> 0..MaxAge \cup {None}]
           /\ Used(f) => age' \in [Files -> 0..MaxAge \cup {None}]
BY MaxAgeFact DEF TypeOK, Touch, Used

LEMMA OverwriteType ==
    ASSUME NEW s \in Seq({"good", "bad"}), NEW k \in Nat
    PROVE  Overwrite(s, k) \in Seq({"good", "bad"})
<1> DEFINE n == IF k > Len(s) THEN k ELSE Len(s)
<1>1. n \in Nat
  OBVIOUS
<1>2. Overwrite(s, k) \in [1..n -> {"good", "bad"}]
  BY DEF Overwrite
<1> QED
  BY <1>1, <1>2

-----------------------------------------------------------------------------
(* Every step of a Put keeps the invariant.                                *)

LEMMA StartPutInv ==
    ASSUME Inv, NEW c \in Clients, NEW i \in Ids, NEW o \in Outputs, StartPut(c, i, o)
    PROVE  Inv'
<1>1. TypeOK'
  BY DEF Inv, TypeOK, StartPut, Goto, Phases, fileVars
<1>2. PhaseOK'
  BY DEF Inv, TypeOK, PhaseOK, StartPut, Goto, PutPhases, Reading, Doomed
<1> QED
  BY <1>1, <1>2 DEF Inv

LEMMA PutCopyInv ==
    ASSUME Inv, NEW c \in Clients,
           PutStat(c) \/ PutHash(c) \/ PutOpen(c) \/ PutBlock(c) \/ PutCommit(c)
    PROVE  Inv'
<1> USE DEF Inv
<1> DEFINE f == DataFile(out[c])
<1>1. CASE PutStat(c)
  <2>1. \A o \in Outputs : Len(blocks[o]) \in Nat
    BY DEF TypeOK
  <2>2. TypeOK'
    BY <1>1, <2>1 DEF TypeOK, PhaseOK, PutPhases, PutStat, Goto, Phases, fileVars
  <2>3. PhaseOK'
    BY <1>1 DEF TypeOK, PhaseOK, PutStat, Goto, PutPhases, Reading, Doomed
  <2> QED
    BY <2>2, <2>3
<1>2. CASE PutHash(c)
  <2>1. TypeOK'
    BY <1>2 DEF TypeOK, PutHash, Goto, Phases, fileVars
  <2>2. PhaseOK'
    BY <1>2 DEF TypeOK, PhaseOK, PutHash, Goto, PutPhases, Reading, Doomed
  <2> QED
    BY <2>1, <2>2
<1>3. CASE PutOpen(c)
  <2>1. <<>> \in Seq({"good", "bad"})
    OBVIOUS
  <2>2. out[c] \in Outputs /\ f \in Files
    BY <1>3, FilesFact DEF PhaseOK, PutPhases, PutOpen
  <2>3. blocks' \in [Outputs -> Seq({"good", "bad"})]
    BY <1>3, <2>1 DEF TypeOK, PutOpen
  <2>4. age' \in [Files -> 0..MaxAge \cup {None}]
    BY <1>3, MaxAgeFact DEF TypeOK, PutOpen
  <2>5. TypeOK'
    BY <1>3, <2>3, <2>4 DEF TypeOK, PutOpen, Goto, Phases
  <2>6. PhaseOK'
    BY <1>3 DEF TypeOK, PhaseOK, PutOpen, Goto, PutPhases, Reading, Doomed
  <2> QED
    BY <2>5, <2>6
<1>4. CASE PutBlock(c)
  <2>1. out[c] \in Outputs /\ f \in Files /\ written[c] + 1 \in Nat
    BY <1>4, FilesFact DEF PhaseOK, PutPhases, PutBlock, TypeOK
  <2>2. Overwrite(blocks[out[c]], written[c] + 1) \in Seq({"good", "bad"})
    BY <2>1, OverwriteType DEF TypeOK
  <2>3. blocks' \in [Outputs -> Seq({"good", "bad"})]
    BY <1>4, <2>2 DEF TypeOK, PutBlock
  <2>4. age' \in [Files -> 0..MaxAge \cup {None}]
    BY <1>4, MaxAgeFact DEF TypeOK, PutBlock
  <2>5. TypeOK'
    BY <1>4, <2>1, <2>3, <2>4 DEF TypeOK, PutBlock, Goto, Phases
  <2>6. PhaseOK'
    BY <1>4 DEF TypeOK, PhaseOK, PutBlock, Goto, PutPhases, Reading, Doomed
  <2> QED
    BY <2>5, <2>6
<1>5. CASE PutCommit(c)
  <2>1. f \in Files
    BY <1>5, FilesFact DEF PhaseOK, PutPhases, PutCommit
  <2>2. age' \in [Files -> 0..MaxAge \cup {None}]
    BY <1>5, <2>1, AgeType DEF PutCommit
  <2>3. TypeOK'
    BY <1>5, <2>2 DEF TypeOK, PutCommit, Goto, Phases, Closed
  <2>4. PhaseOK'
    BY <1>5 DEF TypeOK, PhaseOK, PutCommit, Goto, PutPhases, Reading, Doomed
  <2> QED
    BY <2>3, <2>4
<1> QED
  BY <1>1, <1>2, <1>3, <1>4, <1>5

LEMMA PutCopyFailsInv ==
    ASSUME Inv, NEW c \in Clients,
           PutBlockFails(c) \/ PutCommitFails(c) \/ PutCloseFails(c)
    PROVE  Inv'
<1> USE DEF Inv
<1> DEFINE f == DataFile(out[c])
<1>1. f \in Files /\ Return(c)
  BY FilesFact DEF PhaseOK, PutPhases, PutBlockFails, PutCommitFails, PutCloseFails
<1>2. PhaseOK'
  BY <1>1, ReturnPhase
<1>3. linked' \in [Clients -> BOOLEAN]
  BY DEF TypeOK, PutBlockFails, PutCommitFails, PutCloseFails, Closed, StillLinked
<1>4. /\ index' \in [Ids -> Outputs \cup {None}]
      /\ blocks' \in [Outputs -> Seq({"good", "bad"})]
      /\ age' \in [Files -> 0..MaxAge \cup {None}]
  <2>1. <<>> \in Seq({"good", "bad"})
    OBVIOUS
  <2>2. CASE PutBlockFails(c)
    BY <2>1, <2>2, MaxAgeFact DEF PutBlockFails, TypeOK
  <2>3. CASE PutCommitFails(c)
    BY <2>3 DEF PutCommitFails, TypeOK, fileVars
  <2>4. CASE PutCloseFails(c)
    BY <1>1, <2>4, UnlinkType DEF PutCloseFails
  <2> QED
    BY <2>2, <2>3, <2>4
<1>5. trimAge' = trimAge /\ reply' = reply /\ spoiled' \subseteq Outputs
  BY DEF PutBlockFails, PutCommitFails, PutCloseFails, TypeOK, Spoil
<1>6. TypeOK'
  BY <1>1, <1>3, <1>4, <1>5, ReturnType DEF TypeOK
<1> QED
  BY <1>2, <1>6

LEMMA PutIndexInv ==
    ASSUME Inv, NEW c \in Clients,
           \/ PutIndexOpen(c) \/ PutIndexWrite(c) \/ PutIndexWriteFails(c)
           \/ PutIndexRemove(c) \/ PutIndexTouch(c)
    PROVE  Inv'
<1> USE DEF Inv
<1> DEFINE f == IndexFile(id[c])
<1>1. f \in Files /\ id[c] \in Ids /\ out[c] \in Outputs
  BY FilesFact DEF PhaseOK, PutPhases, PutIndexOpen, PutIndexWrite, PutIndexWriteFails,
                   PutIndexRemove, PutIndexTouch
<1>2. CASE PutIndexOpen(c)
  <2>1. age' \in [Files -> 0..MaxAge \cup {None}]
    BY <1>2, MaxAgeFact DEF TypeOK, PutIndexOpen
  <2>2. TypeOK'
    BY <1>2, <2>1 DEF TypeOK, PutIndexOpen, Goto, Phases
  <2>3. PhaseOK'
    BY <1>2 DEF TypeOK, PhaseOK, PutIndexOpen, Goto, PutPhases, Reading, Doomed
  <2> QED
    BY <2>2, <2>3
<1>3. CASE PutIndexWrite(c)
  <2>1. age' \in [Files -> 0..MaxAge \cup {None}]
    BY <1>3, MaxAgeFact DEF TypeOK, PutIndexWrite
  <2>2. index' \in [Ids -> Outputs \cup {None}]
    BY <1>1, <1>3 DEF TypeOK, PutIndexWrite
  <2>3. TypeOK'
    BY <1>3, <2>1, <2>2 DEF TypeOK, PutIndexWrite, Goto, Phases, Closed
  <2>4. PhaseOK'
    BY <1>3 DEF TypeOK, PhaseOK, PutIndexWrite, Goto, PutPhases, Reading, Doomed
  <2> QED
    BY <2>3, <2>4
<1>4. CASE PutIndexWriteFails(c)
  <2>1. age' \in [Files -> 0..MaxAge \cup {None}]
    BY <1>1, <1>4, AgeType DEF TypeOK, PutIndexWriteFails
  <2>2. index' \in [Ids -> Outputs \cup {None}]
    BY <1>4 DEF TypeOK, PutIndexWriteFails
  <2>3. TypeOK'
    BY <1>4, <2>1, <2>2 DEF TypeOK, PutIndexWriteFails, Goto, Phases, Closed
  <2>4. PhaseOK'
    BY <1>4 DEF TypeOK, PhaseOK, PutIndexWriteFails, Goto, PutPhases, Reading, Doomed
  <2> QED
    BY <2>3, <2>4
<1>5. CASE PutIndexRemove(c)
  <2>1. PhaseOK'
    BY <1>5, ReturnPhase DEF PutIndexRemove
  <2>2. linked' \in [Clients -> BOOLEAN]
    BY <1>5 DEF TypeOK, PutIndexRemove, StillLinked
  <2>3. TypeOK'
    BY <1>1, <1>5, <2>2, UnlinkType, ReturnType DEF TypeOK, PutIndexRemove
  <2> QED
    BY <2>1, <2>3
<1>6. CASE PutIndexTouch(c)
  <2>1. PhaseOK'
    BY <1>6, ReturnPhase DEF PutIndexTouch
  <2>2. age' \in [Files -> 0..MaxAge \cup {None}]
    BY <1>1, <1>6, AgeType DEF TypeOK, PutIndexTouch
  <2>3. TypeOK'
    BY <1>6, <2>2, ReturnType DEF TypeOK, PutIndexTouch
  <2> QED
    BY <2>1, <2>3
<1> QED
  BY <1>2, <1>3, <1>4, <1>5, <1>6

-----------------------------------------------------------------------------
(* So do the steps of GetBytes and of Trim, crashes and ticks.             *)

LEMMA StartGetInv ==
    ASSUME Inv, NEW c \in Clients, NEW i \in Ids, StartGet(c, i)
    PROVE  Inv'
<1>1. TypeOK'
  BY DEF Inv, TypeOK, StartGet, Goto, Phases, fileVars
<1>2. PhaseOK'
  BY DEF Inv, TypeOK, PhaseOK, StartGet, Goto, PutPhases, Reading, Doomed
<1> QED
  BY <1>1, <1>2 DEF Inv

(* A lookup that ends leaves the files alone, whatever it answers.         *)
LEMMA GetEndsInv ==
    ASSUME Inv, NEW c \in Clients, Return(c), UNCHANGED <<fileVars, trimAge, linked, spoiled>>,
           reply' \in [Clients -> Outputs \cup {Miss, None}]
    PROVE  Inv'
<1>1. TypeOK'
  BY ReturnType DEF Inv, TypeOK, fileVars
<1> QED
  BY <1>1, ReturnPhase DEF Inv

LEMMA MissesInv ==
    ASSUME Inv, NEW c \in Clients, Misses(c)
    PROVE  Inv'
<1>1. reply' \in [Clients -> Outputs \cup {Miss, None}]
  BY DEF Inv, TypeOK, Misses
<1> QED
  BY <1>1, GetEndsInv DEF Misses

LEMMA GetStepInv ==
    ASSUME Inv, NEW c \in Clients, GetStep(c)
    PROVE  Inv'
<1> USE DEF Inv
<1>1. CASE GetMiss(c) \/ GetReadFails(c)
  BY <1>1, MissesInv DEF GetMiss, GetReadFails
<1>2. CASE GetLookup(c)
  <2>1. TypeOK'
    BY <1>2 DEF TypeOK, PhaseOK, Reading, GetLookup, Goto, Phases, fileVars
  <2>2. PhaseOK'
    BY <1>2 DEF TypeOK, PhaseOK, GetLookup, Goto, PutPhases, Reading, Doomed
  <2> QED
    BY <2>1, <2>2
<1>3. CASE GetTouchIndex(c) /\ Exists(IndexFile(id[c]))
  <2>1. age' \in [Files -> 0..MaxAge \cup {None}]
    BY <1>3, FilesFact, AgeType DEF GetTouchIndex, PhaseOK, Reading
  <2>2. TypeOK'
    BY <1>3, <2>1 DEF TypeOK, GetTouchIndex, Goto, Phases
  <2>3. PhaseOK'
    BY <1>3 DEF TypeOK, PhaseOK, GetTouchIndex, Goto, PutPhases, Reading, Doomed
  <2> QED
    BY <2>2, <2>3
<1>4. CASE GetTouchIndex(c) /\ ~Exists(IndexFile(id[c]))
  BY <1>4, MissesInv DEF GetTouchIndex
<1>5. CASE GetTouchData(c)
  <2>1. age' \in [Files -> 0..MaxAge \cup {None}]
    BY <1>5, FilesFact, AgeType DEF GetTouchData, PhaseOK, Reading
  <2>2. TypeOK'
    BY <1>5, <2>1 DEF TypeOK, GetTouchData, Goto, Phases
  <2>3. PhaseOK'
    BY <1>5 DEF TypeOK, PhaseOK, GetTouchData, Goto, PutPhases, Reading, Doomed
  <2> QED
    BY <2>2, <2>3
<1>6. CASE GetRead(c)
  <2>1. Bytes(out[c]) \in Outputs
    BY <1>6 DEF GetRead, ChecksumMatches, PhaseOK, Reading
  <2>2. reply' \in [Clients -> Outputs \cup {Miss, None}]
    BY <1>6, <2>1 DEF GetRead, TypeOK
  <2> QED
    BY <1>6, <2>2, GetEndsInv DEF GetRead
<1> QED
  BY <1>1, <1>2, <1>3, <1>4, <1>5, <1>6 DEF GetStep

LEMMA StartTrimInv ==
    ASSUME Inv, NEW c \in Clients, StartTrim(c)
    PROVE  Inv'
<1>1. TypeOK'
  BY DEF Inv, TypeOK, StartTrim, Goto, Phases, fileVars
<1>2. PhaseOK'
  BY DEF Inv, TypeOK, PhaseOK, StartTrim, Goto, PutPhases, Reading, Doomed
<1> QED
  BY <1>1, <1>2 DEF Inv

LEMMA TrimStepInv ==
    ASSUME Inv, NEW c \in Clients, TrimStep(c)
    PROVE  Inv'
<1> USE DEF Inv
<1>1. ASSUME NEW f \in Files, TrimKeep(c, f)
      PROVE  Inv'
  <2>1. TypeOK'
    BY <1>1 DEF TypeOK, TrimKeep, fileVars
  <2>2. PhaseOK'
    BY <1>1 DEF PhaseOK, TrimKeep, fileVars, PutPhases, Reading, Doomed
  <2> QED
    BY <2>1, <2>2
<1>2. ASSUME NEW f \in Files, TrimExpired(c, f)
      PROVE  Inv'
  <2>1. \/ f[1] = "a" /\ f[2] \in Ids /\ f = IndexFile(f[2])
        \/ f[1] = "d" /\ f[2] \in Outputs /\ f = DataFile(f[2])
    BY DEF Files
  <2>2. TypeOK'
    BY <1>2, <2>1 DEF TypeOK, TrimExpired, Goto, Phases, fileVars
  <2>3. None \notin Ids
    BY CacheAssumption DEF CacheAssumption
  <2>4. Doomed(c)' \in Files
    BY <1>2, <2>1, <2>3 DEF TypeOK, TrimExpired, Doomed
  <2>5. PhaseOK'
    BY <1>2, <2>4 DEF TypeOK, PhaseOK, TrimExpired, Goto, PutPhases, Reading, Doomed
  <2> QED
    BY <2>2, <2>5
<1>3. CASE TrimRemove(c)
  <2>1. Doomed(c) \in Files
    BY <1>3 DEF PhaseOK, TrimRemove
  <2>2. linked' \in [Clients -> BOOLEAN]
    BY <1>3 DEF TypeOK, TrimRemove, StillLinked
  <2>3. TypeOK'
    BY <1>3, <2>1, <2>2, UnlinkType DEF TypeOK, TrimRemove, Spoil, Goto, Phases
  <2>4. PhaseOK'
    BY <1>3 DEF TypeOK, PhaseOK, TrimRemove, Goto, PutPhases, Reading, Doomed
  <2> QED
    BY <2>3, <2>4
<1>4. CASE TrimDone(c)
  <2>1. PhaseOK'
    BY <1>4, ReturnPhase DEF TrimDone
  <2>2. TypeOK'
    BY <1>4, ReturnType, MaxAgeFact DEF TypeOK, TrimDone, fileVars
  <2> QED
    BY <2>1, <2>2
<1> QED
  BY <1>1, <1>2, <1>3, <1>4 DEF TrimStep

LEMMA CrashInv ==
    ASSUME Inv, NEW c \in Clients, Crash(c)
    PROVE  Inv'
<1>1. PhaseOK'
  BY ReturnPhase DEF Crash
<1>2. linked' \in [Clients -> BOOLEAN]
  BY DEF Inv, TypeOK, Crash, Closed
<1>3. TypeOK'
  BY <1>2, ReturnType DEF Inv, TypeOK, Crash, fileVars
<1> QED
  BY <1>1, <1>3 DEF Inv

LEMMA TickInv ==
    ASSUME Inv, Tick
    PROVE  Inv'
<1>1. ASSUME NEW n \in 0..MaxAge \cup {None}
      PROVE  /\ Older(n) \in 0..MaxAge \cup {None}
             /\ n \in 0..MaxAge => Older(n) \in 0..MaxAge
  <2>1. None \notin Int
    BY CacheAssumption DEF CacheAssumption
  <2> QED
    BY <2>1, MaxAgeFact DEF Older
<1>2. TypeOK'
  BY <1>1 DEF Inv, TypeOK, Tick, clientVars
<1>3. PhaseOK'
  BY DEF Inv, PhaseOK, Tick, clientVars, Doomed
<1> QED
  BY <1>2, <1>3 DEF Inv

LEMMA StutterInv ==
    ASSUME Inv, UNCHANGED vars
    PROVE  Inv'
BY DEF Inv, TypeOK, PhaseOK, Doomed, vars, fileVars, clientVars

LEMMA NextInv ==
    ASSUME Inv, [Next]_vars
    PROVE  Inv'
<1>1. ASSUME NEW c \in Clients, NEW i \in Ids, NEW o \in Outputs, StartPut(c, i, o)
      PROVE  Inv'
  BY <1>1, StartPutInv
<1>2. ASSUME NEW c \in Clients, PutStep(c)
      PROVE  Inv'
  BY <1>2, PutCopyInv, PutCopyFailsInv, PutIndexInv DEF PutStep
<1>3. ASSUME NEW c \in Clients, NEW i \in Ids, StartGet(c, i)
      PROVE  Inv'
  BY <1>3, StartGetInv
<1>4. ASSUME NEW c \in Clients, GetStep(c) \/ StartTrim(c) \/ TrimStep(c) \/ Crash(c)
      PROVE  Inv'
  BY <1>4, GetStepInv, StartTrimInv, TrimStepInv, CrashInv
<1> QED
  BY <1>1, <1>2, <1>3, <1>4, TickInv, StutterInv DEF Next

(* The states of the cache have the types the code gives them, and the id  *)
(* and output a client is working on are those of its phase.               *)
THEOREM CacheInvariant == Spec => []Inv
<1>1. Init => Inv
  BY InitInv
<1>2. Inv /\ [Next]_vars => Inv'
  BY NextInv
<1> QED
  BY <1>1, <1>2, PTL DEF Spec

THEOREM CacheTypeCorrect == Spec => []TypeOK
<1>1. Inv => TypeOK
  BY DEF Inv
<1> QED
  BY <1>1, CacheInvariant, PTL

-----------------------------------------------------------------------------
(* The refinement: what clients ask and have found, as CacheMap sees it.   *)

Asked == [c \in Clients |-> IF pc[c] \in Reading THEN id[c] ELSE None]
Found == [c \in Clients |-> IF pc[c] \in Reading THEN out[c] ELSE None]

(* Only c moves. *)
Moves(c) ==
    \A d \in Clients \ {c} : pc'[d] = pc[d] /\ id'[d] = id[d] /\ out'[d] = out[d]

LEMMA MovesAsked ==
    ASSUME Inv, NEW c \in Clients, Moves(c)
    PROVE  /\ pc[c] \notin Reading /\ pc'[c] \notin Reading => Asked' = Asked /\ Found' = Found
           /\ pc[c] \in Reading /\ pc'[c] \notin Reading =>
                 /\ Asked' = [Asked EXCEPT ![c] = None]
                 /\ Found' = [Found EXCEPT ![c] = None]
           /\ pc[c] \in Reading /\ pc'[c] \in Reading /\ id'[c] = id[c] =>
                 /\ Asked' = Asked
                 /\ Found' = [Found EXCEPT ![c] = out'[c]]
BY DEF Moves, Asked, Found

LEMMA ReturnMoves ==
    ASSUME Inv, NEW c \in Clients, Return(c)
    PROVE  Moves(c) /\ pc'[c] = "idle" /\ pc'[c] \notin Reading
BY DEF Inv, TypeOK, Return, Goto, Moves, Reading

(* An unlinked file takes its index entry with it, if it has one.          *)
LEMMA UnlinkForgets ==
    ASSUME Inv, NEW f \in Files, Unlink(f)
    PROVE  \/ index' = index
           \/ \E i \in Ids : index' = [index EXCEPT ![i] = None]
<1>1. CASE \E i \in Ids : f = IndexFile(i)
  <2>1. PICK i \in Ids : f = IndexFile(i)
    BY <1>1
  <2>2. index' = [index EXCEPT ![i] = None]
    BY <2>1 DEF Inv, TypeOK, Unlink
  <2> QED
    BY <2>2
<1>2. CASE \E o \in Outputs : f = DataFile(o)
  BY <1>2, FilesFact DEF Inv, TypeOK, Unlink
<1> QED
  BY <1>1, <1>2, FilesFact

(* A step that keeps the lookups and their answers is one of CacheMap if   *)
(* it keeps, stores or forgets an entry.                                   *)
LEMMA MapQuietStep ==
    ASSUME Inv, Asked' = Asked, Found' = Found, reply' = reply,
           \/ index' = index
           \/ \E i \in Ids, o \in Outputs : index' = [index EXCEPT ![i] = o]
           \/ \E i \in Ids : index' = [index EXCEPT ![i] = None]
    PROVE  [Map!MapNext]_(Map!mapVars)
BY DEF Map!MapNext, Map!mapVars, Map!Store, Map!Forget, Asked, Found

(* A client that starts a Put or a Trim drops its last answer.             *)
LEMMA MapDrop ==
    ASSUME Inv, NEW c \in Clients, pc[c] = "idle", Asked' = Asked, Found' = Found,
           index' = index, reply' = [reply EXCEPT ![c] = None]
    PROVE  Map!MapNext
<1>1. Asked[c] = None
  BY DEF Asked, Reading
<1>2. Map!Drop(c)
  BY <1>1 DEF Map!Drop, Asked, Found
<1> QED
  BY <1>2 DEF Map!MapNext

LEMMA MapPutStep ==
    ASSUME Inv, NEW c \in Clients, PutStep(c)
    PROVE  [Map!MapNext]_(Map!mapVars)
<1> USE DEF Inv
<1>1. pc[c] \in PutPhases /\ pc[c] \notin Reading
  BY DEF PutStep, PutPhases, Reading, PutStat, PutHash, PutOpen, PutBlock, PutBlockFails,
         PutCommit, PutCommitFails, PutCloseFails, PutIndexOpen, PutIndexWrite,
         PutIndexWriteFails, PutIndexRemove, PutIndexTouch
<1>2. id[c] \in Ids /\ out[c] \in Outputs
  BY <1>1 DEF PhaseOK
<1>3. IndexFile(id[c]) \in Files /\ DataFile(out[c]) \in Files
  BY <1>2, FilesFact
<1>4. Moves(c) /\ pc'[c] \notin Reading
  <2>1. CASE \/ PutStat(c) \/ PutHash(c) \/ PutOpen(c) \/ PutBlock(c) \/ PutCommit(c)
             \/ PutIndexOpen(c) \/ PutIndexWrite(c) \/ PutIndexWriteFails(c)
    BY <2>1 DEF TypeOK, Goto, Moves, Reading, PutStat, PutHash, PutOpen, PutBlock,
                PutCommit, PutIndexOpen, PutIndexWrite, PutIndexWriteFails
  <2>2. CASE \/ PutBlockFails(c) \/ PutCommitFails(c) \/ PutCloseFails(c)
             \/ PutIndexRemove(c) \/ PutIndexTouch(c)
    BY <2>2, ReturnMoves DEF PutBlockFails, PutCommitFails, PutCloseFails,
                             PutIndexRemove, PutIndexTouch
  <2> QED
    BY <2>1, <2>2 DEF PutStep
<1>5. reply' = reply
  BY DEF PutStep, PutStat, PutHash, PutOpen, PutBlock, PutBlockFails,
         PutCommit, PutCommitFails, PutCloseFails, PutIndexOpen, PutIndexWrite,
         PutIndexWriteFails, PutIndexRemove, PutIndexTouch
<1>6. \/ index' = index
      \/ \E i \in Ids, o \in Outputs : index' = [index EXCEPT ![i] = o]
      \/ \E i \in Ids : index' = [index EXCEPT ![i] = None]
  <2>1. CASE PutIndexWrite(c) \/ PutIndexWriteFails(c)
    BY <1>2, <2>1 DEF PutIndexWrite, PutIndexWriteFails
  <2>2. CASE PutCloseFails(c) \/ PutIndexRemove(c)
    BY <1>3, <2>2, UnlinkForgets DEF PutCloseFails, PutIndexRemove
  <2>3. CASE \/ PutStat(c) \/ PutHash(c) \/ PutOpen(c) \/ PutBlock(c) \/ PutBlockFails(c)
             \/ PutCommit(c) \/ PutCommitFails(c) \/ PutIndexOpen(c) \/ PutIndexTouch(c)
    BY <2>3 DEF PutStat, PutHash, PutOpen, PutBlock, PutBlockFails, PutCommit,
                PutCommitFails, PutIndexOpen, PutIndexTouch, fileVars
  <2> QED
    BY <2>1, <2>2, <2>3 DEF PutStep
<1> QED
  BY <1>1, <1>4, <1>5, <1>6, MovesAsked, MapQuietStep

LEMMA MapStartGet ==
    ASSUME Inv, NEW c \in Clients, NEW i \in Ids, StartGet(c, i)
    PROVE  Map!MapNext
<1> USE DEF Inv
<1>1. Asked[c] = None
  BY DEF StartGet, Asked, Reading
<1>2. Asked' = [Asked EXCEPT ![c] = i]
  BY DEF StartGet, Goto, TypeOK, Asked, Reading
<1>3. Found' = Found
  BY DEF StartGet, Goto, TypeOK, PhaseOK, Found, Reading
<1>4. Map!Ask(c, i)
  BY <1>1, <1>2, <1>3 DEF StartGet, Map!Ask, Asked, Found, fileVars
<1> QED
  BY <1>4 DEF Map!MapNext

(* The end of a lookup is an Answer, with a miss or with what was found.   *)
LEMMA MapAnswer ==
    ASSUME Inv, NEW c \in Clients, pc[c] \in Reading, Return(c), index' = index,
           \/ reply' = reply
           \/ reply' = [reply EXCEPT ![c] = Miss]
           \/ out[c] \in Outputs /\ reply' = [reply EXCEPT ![c] = out[c]]
    PROVE  Map!MapNext
<1>1. Asked[c] # None
  BY CacheAssumption DEF CacheAssumption, Asked, Inv, PhaseOK
<1>2. Found[c] = out[c] /\ (out[c] \in Outputs => out[c] # None)
  BY CacheAssumption DEF CacheAssumption, Found
<1>3. Asked' = [Asked EXCEPT ![c] = None] /\ Found' = [Found EXCEPT ![c] = None]
  BY ReturnMoves, MovesAsked
<1>4. Map!Answer(c)
  BY <1>1, <1>2, <1>3 DEF Map!Answer, Asked, Found
<1> QED
  BY <1>4 DEF Map!MapNext

LEMMA MapGetStep ==
    ASSUME Inv, NEW c \in Clients, GetStep(c)
    PROVE  [Map!MapNext]_(Map!mapVars)
<1> USE DEF Inv
<1>1. pc[c] \in Reading
  BY DEF GetStep, GetMiss, GetLookup, GetTouchIndex, GetTouchData, GetRead, GetReadFails,
         Reading
<1>2. ASSUME Misses(c)
      PROVE  Map!MapNext
  BY <1>1, <1>2, MapAnswer DEF Misses, fileVars
<1>3. CASE GetLookup(c)
  <2>1. Moves(c) /\ pc'[c] \in Reading /\ id'[c] = id[c] /\ out'[c] = index[id[c]]
    BY <1>3 DEF GetLookup, TypeOK, Goto, Moves, Reading
  <2>2. Asked' = Asked /\ Found' = [Found EXCEPT ![c] = out'[c]]
    BY <1>1, <2>1, MovesAsked
  <2>3. Asked[c] = id[c] /\ id[c] # None
    BY <1>1, CacheAssumption DEF CacheAssumption, Asked, PhaseOK
  <2>4. Map!LookUp(c)
    BY <1>3, <2>1, <2>2, <2>3 DEF GetLookup, Map!LookUp, Asked, Found, fileVars
  <2> QED
    BY <2>4 DEF Map!MapNext
<1>4. CASE GetTouchData(c) \/ (GetTouchIndex(c) /\ Exists(IndexFile(id[c])))
  <2>1. Moves(c) /\ pc'[c] \in Reading /\ id'[c] = id[c] /\ out'[c] = out[c]
    BY <1>4 DEF GetTouchData, GetTouchIndex, TypeOK, Goto, Moves, Reading
  <2>2. Asked' = Asked /\ Found' = [Found EXCEPT ![c] = out[c]]
    BY <1>1, <2>1, MovesAsked
  <2>3. Found' = Found
    BY <1>1, <2>2 DEF Found
  <2> QED
    BY <1>4, <2>2, <2>3, MapQuietStep DEF GetTouchData, GetTouchIndex
<1>5. CASE GetRead(c)
  <2>1. out[c] \in Outputs
    BY <1>5 DEF GetRead, PhaseOK, Reading
  <2> QED
    BY <1>1, <1>5, <2>1, MapAnswer DEF GetRead, ChecksumMatches, fileVars
<1>6. CASE GetMiss(c) \/ GetReadFails(c)
  BY <1>2, <1>6 DEF GetMiss, GetReadFails
<1>7. CASE GetTouchIndex(c) /\ ~Exists(IndexFile(id[c]))
  BY <1>2, <1>7 DEF GetTouchIndex
<1> QED
  BY <1>3, <1>4, <1>5, <1>6, <1>7 DEF GetStep

LEMMA MapTrimStep ==
    ASSUME Inv, NEW c \in Clients, StartTrim(c) \/ TrimStep(c)
    PROVE  [Map!MapNext]_(Map!mapVars)
<1> USE DEF Inv
<1>1. pc[c] \notin Reading
  BY DEF StartTrim, TrimStep, TrimKeep, TrimExpired, TrimRemove, TrimDone, Reading
<1>2. Moves(c) /\ pc'[c] \notin Reading
  <2>1. CASE TrimDone(c)
    BY <2>1, ReturnMoves DEF TrimDone
  <2>2. CASE StartTrim(c) \/ TrimRemove(c) \/ \E f \in Files : TrimKeep(c, f) \/ TrimExpired(c, f)
    BY <2>2 DEF StartTrim, TrimKeep, TrimExpired, TrimRemove, TypeOK, Goto, Moves, Reading
  <2> QED
    BY <2>1, <2>2 DEF TrimStep
<1>3. Asked' = Asked /\ Found' = Found
  BY <1>1, <1>2, MovesAsked
<1>4. CASE StartTrim(c)
  BY <1>3, <1>4, MapDrop DEF StartTrim, fileVars
<1>5. CASE TrimStep(c)
  <2>1. reply' = reply
    BY <1>5 DEF TrimStep, TrimKeep, TrimExpired, TrimRemove, TrimDone
  <2>2. \/ index' = index
        \/ \E i \in Ids : index' = [index EXCEPT ![i] = None]
    <3>1. CASE TrimRemove(c)
      BY <3>1, UnlinkForgets DEF TrimRemove, PhaseOK
    <3>2. CASE ~TrimRemove(c)
      BY <1>5, <3>2 DEF TrimStep, TrimKeep, TrimExpired, TrimDone, fileVars
    <3> QED
      BY <3>1, <3>2
  <2> QED
    BY <1>3, <2>1, <2>2, MapQuietStep
<1> QED
  BY <1>4, <1>5

LEMMA MapOtherStep ==
    ASSUME Inv, \/ \E c \in Clients : Crash(c)
                \/ \E c \in Clients, i \in Ids, o \in Outputs : StartPut(c, i, o)
                \/ Tick \/ UNCHANGED vars
    PROVE  [Map!MapNext]_(Map!mapVars)
<1> USE DEF Inv
<1>1. ASSUME NEW c \in Clients, Crash(c), pc[c] \in Reading
      PROVE  Map!MapNext
  BY <1>1, MapAnswer DEF Crash, fileVars
<1>2. ASSUME NEW c \in Clients, Crash(c), pc[c] \notin Reading
      PROVE  [Map!MapNext]_(Map!mapVars)
  BY <1>2, ReturnMoves, MovesAsked, MapQuietStep DEF Crash, fileVars
<1>3. ASSUME NEW c \in Clients, NEW i \in Ids, NEW o \in Outputs, StartPut(c, i, o)
      PROVE  Map!MapNext
  <2>1. Moves(c) /\ pc[c] \notin Reading /\ pc'[c] \notin Reading
    BY <1>3 DEF StartPut, TypeOK, Goto, Moves, Reading
  <2> QED
    BY <1>3, <2>1, MovesAsked, MapDrop DEF StartPut, fileVars
<1>4. CASE Tick \/ UNCHANGED vars
  BY <1>4, MapQuietStep DEF Tick, vars, fileVars, clientVars, Asked, Found
<1> QED
  BY <1>1, <1>2, <1>3, <1>4

(* Whatever writers, failures, crashes and trims do, a lookup answers with *)
(* what was stored under its id at some moment of the call, or not at all. *)
THEOREM CacheImplementsMap == Spec => ImplementsMap
<1>1. Init => Map!MapInit
  BY CacheAssumption DEF Init, Map!MapInit, Reading
<1>2. Inv /\ [Next]_vars => [Map!MapNext]_(Map!mapVars)
  <2> SUFFICES ASSUME Inv, [Next]_vars PROVE [Map!MapNext]_(Map!mapVars)
    OBVIOUS
  <2>1. ASSUME NEW c \in Clients, NEW i \in Ids, StartGet(c, i)
        PROVE  Map!MapNext
    BY <2>1, MapStartGet
  <2>2. ASSUME NEW c \in Clients, PutStep(c) \/ GetStep(c) \/ StartTrim(c) \/ TrimStep(c)
        PROVE  [Map!MapNext]_(Map!mapVars)
    BY <2>2, MapPutStep, MapGetStep, MapTrimStep
  <2> QED
    BY <2>1, <2>2, MapOtherStep DEF Next
<1> QED
  BY <1>1, <1>2, CacheInvariant, PTL DEF Spec, ImplementsMap, Map!MapSpec

-----------------------------------------------------------------------------
(* Concurrent writers that may die at any point never spoil a data file:   *)
(* of outputs that are not spoiled, a file only grows along its right      *)
(* content, and no writer is ahead of its file.                            *)

Goods(n) == [i \in 1..n |-> "good"]

(* Data files are prefixes of what they should be. *)
DataOK ==
    \A o \in Outputs \ spoiled :
        /\ Len(blocks[o]) \in 0..Blocks[o]
        /\ blocks[o] = Goods(Len(blocks[o]))
        /\ Exists(DataFile(o)) \/ Len(blocks[o]) = 0

Full(o) == Exists(DataFile(o)) /\ Len(blocks[o]) = Blocks[o]

(* A writer will not truncate, has written no more than there is, and goes *)
(* on to the index only when the data file is full.                        *)
WriterOK(c) ==
    /\ pc[c] \notin {"copy", "commit"} => written[c] = 0
    /\ pc[c] \in PutPhases /\ out[c] \notin spoiled =>
          /\ pc[c] \in {"hash", "open"} => ~OpenTruncates(c)
          /\ pc[c] = "copy" => /\ linked[c]
                               /\ Exists(DataFile(out[c]))
                               /\ written[c] < Blocks[out[c]]
                               /\ written[c] <= Len(blocks[out[c]])
          /\ pc[c] \in {"commit", "indexOpen", "indexWrite", "indexTouch"} => Full(out[c])

IndexOK == \A i \in Ids : index[i] \notin spoiled \cup {None} => Full(index[i])

WritersInv == Inv /\ DataOK /\ IndexOK /\ \A c \in Clients : WriterOK(c)

LEMMA GoodsFact ==
    \A n \in Nat : /\ Goods(n) \in Seq({"good", "bad"})
                   /\ Len(Goods(n)) = n
                   /\ \A i \in 1..n : Goods(n)[i] = "good"
BY DEF Goods

LEMMA NoGoods == Goods(0) = <<>> /\ Len(<<>>) = 0
BY GoodsFact DEF Goods

LEMMA OverwriteGood ==
    ASSUME NEW n \in Nat, NEW k \in 1..(n + 1)
    PROVE  Overwrite(Goods(n), k) = Goods(IF k > n THEN k ELSE n)
BY GoodsFact DEF Overwrite, Goods

LEMMA FullIsComplete ==
    ASSUME DataOK, NEW o \in Outputs \ spoiled
    PROVE  Full(o) <=> Complete(o)
<1>1. Blocks[o] \in Nat /\ AllGood(o) = Goods(Blocks[o])
  BY CacheAssumption DEF CacheAssumption, AllGood, Goods
<1> QED
  BY <1>1, GoodsFact DEF DataOK, Full, Complete

(* Files that are not spoiled stay and grow. *)
Grows ==
    /\ spoiled \subseteq spoiled'
    /\ \A o \in Outputs \ spoiled' : /\ Exists(DataFile(o)) => Exists(DataFile(o))'
                                     /\ Len(blocks'[o]) >= Len(blocks[o])
    /\ DataOK'

OthersStay(c) ==
    \A d \in Clients \ {c} :
        /\ pc'[d] = pc[d] /\ out'[d] = out[d] /\ seen'[d] = seen[d]
        /\ written'[d] = written[d]
        /\ pc[d] = "copy" /\ out[d] \notin spoiled' => linked'[d] = linked[d]

LEMMA FullStays ==
    ASSUME DataOK, Grows, NEW o \in Outputs \ spoiled', Full(o)
    PROVE  Exists(DataFile(o))' /\ Len(blocks'[o]) = Blocks[o]
<1>1. Len(blocks'[o]) >= Blocks[o] /\ Len(blocks'[o]) \in 0..Blocks[o]
  BY DEF Grows, DataOK, Full
<1>2. Blocks[o] \in Nat
  BY CacheAssumption DEF CacheAssumption
<1> QED
  BY <1>1, <1>2 DEF Grows, Full

LEMMA OthersKeep ==
    ASSUME WritersInv, Grows, NEW c \in Clients, OthersStay(c), NEW d \in Clients \ {c}
    PROVE  WriterOK(d)'
<1> USE DEF WritersInv
<1>1. pc'[d] \notin {"copy", "commit"} => written'[d] = 0
  BY DEF WriterOK, OthersStay
<1> SUFFICES ASSUME pc'[d] \in PutPhases, out'[d] \notin spoiled'
             PROVE  WriterOK(d)'
  BY <1>1 DEF WriterOK
<1>2. /\ pc[d] \in PutPhases /\ out[d] \in Outputs \ spoiled' /\ out[d] \notin spoiled
      /\ pc'[d] = pc[d] /\ out'[d] = out[d]
  BY DEF Inv, PhaseOK, OthersStay, Grows
<1>3. pc[d] \in {"hash", "open"} => ~OpenTruncates(d)'
  BY <1>2 DEF WriterOK, OthersStay, OpenTruncates
<1>4. pc[d] = "copy" => /\ linked'[d]
                        /\ Exists(DataFile(out[d]))'
                        /\ written'[d] < Blocks[out[d]]
                        /\ written'[d] <= Len(blocks'[out[d]])
  <2> SUFFICES ASSUME pc[d] = "copy" PROVE /\ linked'[d]
                        /\ Exists(DataFile(out[d]))'
                        /\ written'[d] < Blocks[out[d]]
                        /\ written'[d] <= Len(blocks'[out[d]])
    OBVIOUS
  <2>1. /\ linked'[d] /\ written'[d] = written[d] /\ written[d] \in Nat
        /\ written[d] < Blocks[out[d]] /\ written[d] <= Len(blocks[out[d]])
        /\ Exists(DataFile(out[d]))
    BY <1>2 DEF WriterOK, OthersStay, Inv, TypeOK
  <2>2. /\ Len(blocks[out[d]]) \in Nat /\ Len(blocks'[out[d]]) \in Nat
        /\ Len(blocks'[out[d]]) >= Len(blocks[out[d]])
    <3>1. Blocks[out[d]] \in Nat
      BY <1>2, CacheAssumption DEF CacheAssumption
    <3>2. Len(blocks[out[d]]) \in 0..Blocks[out[d]] /\ out[d] \in Outputs \ spoiled'
      BY <1>2 DEF DataOK
    <3>3. Len(blocks'[out[d]]) \in 0..Blocks[out[d]]
      BY <3>2 DEF DataOK, Grows
    <3>4. Len(blocks'[out[d]]) >= Len(blocks[out[d]])
      BY <3>2 DEF Grows
    <3> QED
      BY <3>1, <3>2, <3>3, <3>4
  <2>3. Exists(DataFile(out[d]))'
    BY <1>2, <2>1 DEF Grows, Exists
  <2> QED
    BY <2>1, <2>2, <2>3
<1>5. pc[d] \in {"commit", "indexOpen", "indexWrite", "indexTouch"} => Full(out[d])'
  BY <1>2, FullStays DEF WriterOK, Full, Exists
<1> QED
  BY <1>1, <1>2, <1>3, <1>4, <1>5 DEF WriterOK, Exists

(* A step of c that lets the files grow keeps the invariant if it leaves c *)
(* and the index in order.                                                 *)
LEMMA WriterStep ==
    ASSUME WritersInv, Inv', Grows, NEW c \in Clients, OthersStay(c), WriterOK(c)',
           \A i \in Ids : \/ index'[i] \in {index[i], None}
                          \/ index'[i] \notin spoiled' => Full(index[i])'
    PROVE  WritersInv'
<1>1. \A d \in Clients : WriterOK(d)'
  BY OthersKeep
<1>2. IndexOK'
  <2> SUFFICES ASSUME NEW i \in Ids, index'[i] \notin spoiled' \cup {None}, index'[i] = index[i]
               PROVE  Full(index[i])'
    BY DEF IndexOK
  <2>1. index[i] \in Outputs \ spoiled' /\ Full(index[i])
    BY DEF WritersInv, Inv, TypeOK, IndexOK, Grows
  <2> QED
    BY <2>1, FullStays DEF WritersInv, Full, Exists
<1> QED
  BY <1>1, <1>2 DEF WritersInv, Grows

(* Data files that do not change grow; so do they if one is spoiled.       *)
LEMMA SameFilesGrow ==
    ASSUME WritersInv, spoiled \subseteq spoiled',
           \A o \in Outputs \ spoiled' :
              blocks'[o] = blocks[o] /\ (Exists(DataFile(o)) => Exists(DataFile(o))')
    PROVE  Grows
<1>1. \A o \in Outputs : Len(blocks[o]) \in Nat
  BY DEF WritersInv, Inv, TypeOK
<1>2. DataOK'
  BY DEF WritersInv, DataOK, Exists
<1> QED
  BY <1>1, <1>2 DEF Grows

LEMMA ReturnWriter ==
    ASSUME WritersInv, NEW c \in Clients, Return(c), linked' \in {linked, Closed(c)}
    PROVE  OthersStay(c) /\ WriterOK(c)'
BY DEF WritersInv, Inv, TypeOK, Return, Goto, OthersStay, WriterOK, Closed, PutPhases

LEMMA TouchKeeps ==
    ASSUME TypeOK, NEW f \in Files,
           Touch(f) \/ Used(f) \/ age' = [age EXCEPT ![f] = 0]
                    \/ age' = [age EXCEPT ![f] = IF @ = None THEN 0 ELSE @] \/ age' = age
    PROVE  \A o \in Outputs : Exists(DataFile(o)) => Exists(DataFile(o))'
<1>1. None \notin Int
  BY CacheAssumption DEF CacheAssumption
<1> QED
  BY <1>1, FilesFact DEF TypeOK, Touch, Used, Exists

(* Removing a file by name spoils its output, if it is a data file.        *)
LEMMA UnlinkGrows ==
    ASSUME WritersInv, NEW f \in Files, Unlink(f), Spoil(f)
    PROVE  Grows /\ \A i \in Ids : index'[i] \in {index[i], None}
<1>1. \A i \in Ids : index'[i] \in {index[i], None}
  BY DEF Unlink
<1>2. \A o \in Outputs \ spoiled' :
         blocks'[o] = blocks[o] /\ (Exists(DataFile(o)) => Exists(DataFile(o))')
  BY FilesFact DEF WritersInv, Inv, TypeOK, Unlink, Spoil, Exists
<1> QED
  BY <1>1, <1>2, SameFilesGrow DEF Spoil

LEMMA UnlinkOthers ==
    ASSUME WritersInv, NEW f \in Files, Spoil(f), linked' = StillLinked(f),
           NEW d \in Clients, pc[d] = "copy", out[d] \notin spoiled'
    PROVE  linked'[d] = linked[d]
<1>1. out[d] \in Outputs
  BY DEF WritersInv, Inv, PhaseOK, PutPhases
<1>2. f # DataFile(out[d])
  BY <1>1 DEF Spoil
<1> QED
  BY <1>1, <1>2 DEF StillLinked, OpenFor, WritersInv, Inv, TypeOK

LEMMA WritersInit ==
    ASSUME Init
    PROVE  WritersInv
<1>1. \A o \in Outputs \ spoiled : blocks[o] = <<>>
  BY DEF Init
<1>2. DataOK
  BY <1>1, NoGoods, CacheAssumption DEF CacheAssumption, DataOK
<1> QED
  BY <1>2, InitInv DEF Init, WritersInv, IndexOK, WriterOK, PutPhases

LEMMA WritersOpen ==
    ASSUME WritersInv, NEW c \in Clients, PutOpen(c), Inv'
    PROVE  WritersInv'
<1> USE DEF WritersInv
<1> DEFINE o == out[c]
           f == DataFile(o)
<1>1. o \in Outputs /\ f \in Files /\ Blocks[o] \in Nat
  BY FilesFact, CacheAssumption DEF CacheAssumption, PutOpen, Inv, PhaseOK, PutPhases
<1>2. o \notin spoiled => blocks' = blocks
  <2> SUFFICES ASSUME o \notin spoiled PROVE blocks' = blocks
    OBVIOUS
  <2>1. ~OpenTruncates(c)
    BY DEF PutOpen, WriterOK, PutPhases
  <2>2. ~Exists(f) => blocks[o] = <<>>
    BY <1>1, NoGoods DEF DataOK
  <2> QED
    BY <1>1, <2>1, <2>2 DEF PutOpen, Inv, TypeOK
<1>3. Exists(f)' /\ \A p \in Outputs : Exists(DataFile(p)) => Exists(DataFile(p))'
  <2>1. None \notin Int
    BY CacheAssumption DEF CacheAssumption
  <2> QED
    BY <1>1, <2>1, FilesFact DEF PutOpen, Inv, TypeOK, Exists
<1>4. Grows
  <2>1. \A p \in Outputs \ spoiled' : blocks'[p] = blocks[p]
    BY <1>2 DEF PutOpen, Inv, TypeOK
  <2> QED
    BY <1>3, <2>1, SameFilesGrow DEF PutOpen
<1>5. OthersStay(c)
  BY DEF PutOpen, Inv, TypeOK, OthersStay, Goto
<1>6. written[c] = 0 /\ out'[c] = o /\ written'[c] = 0
  BY DEF PutOpen, WriterOK
<1>7. o \notin spoiled => Len(blocks'[o]) \in 0..Blocks[o]
  BY <1>1, <1>2 DEF DataOK
<1>8. CASE Blocks[o] = 0
  <2>1. pc'[c] = "indexOpen" /\ spoiled' = spoiled
    BY <1>8 DEF PutOpen, Inv, TypeOK, Goto
  <2>2. o \notin spoiled => Full(out[c])'
    BY <1>3, <1>6, <1>7, <1>8 DEF Full, Exists
  <2>3. WriterOK(c)'
    BY <1>6, <2>1, <2>2 DEF WriterOK
  <2> QED
    BY <1>4, <1>5, <2>3, WriterStep DEF PutOpen
<1>9. CASE Blocks[o] # 0
  <2>1. pc'[c] = "copy" /\ linked'[c] /\ spoiled' = spoiled
    BY <1>9 DEF PutOpen, Inv, TypeOK, Goto
  <2>2. 0 < Blocks[o] /\ (o \notin spoiled => 0 <= Len(blocks'[o]))
    BY <1>1, <1>7, <1>9
  <2>3. WriterOK(c)'
    BY <1>3, <1>6, <2>1, <2>2 DEF WriterOK, Exists
  <2> QED
    BY <1>4, <1>5, <2>3, WriterStep DEF PutOpen
<1> QED
  BY <1>8, <1>9

LEMMA WritersBlock ==
    ASSUME WritersInv, NEW c \in Clients, PutBlock(c), Inv'
    PROVE  WritersInv'
<1> USE DEF WritersInv
<1> DEFINE o == out[c]
           n == Len(blocks[o])
           k == written[c] + 1
<1>1. o \in Outputs /\ DataFile(o) \in Files /\ Blocks[o] \in Nat
  BY FilesFact, CacheAssumption DEF CacheAssumption, PutBlock, Inv, PhaseOK, PutPhases
<1>2. \A p \in Outputs : Exists(DataFile(p)) => Exists(DataFile(p))'
  BY <1>1, TouchKeeps DEF PutBlock, Inv
<1>3. \A p \in Outputs \ {o} : blocks'[p] = blocks[p]
  BY DEF PutBlock, Inv, TypeOK
<1>4. OthersStay(c) /\ written'[c] = k /\ out'[c] = o /\ linked' = linked /\ spoiled' = spoiled
  BY DEF PutBlock, Inv, TypeOK, OthersStay, Goto
<1>5. pc'[c] = (IF k = Blocks[o] THEN "commit" ELSE "copy")
  BY DEF PutBlock, Inv, TypeOK, Goto
<1>6. CASE o \in spoiled
  <2>1. Grows
    BY <1>2, <1>3, <1>4, <1>6, SameFilesGrow
  <2>2. WriterOK(c)'
    BY <1>4, <1>5, <1>6 DEF WriterOK
  <2> QED
    BY <1>4, <2>1, <2>2, WriterStep DEF PutBlock
<1>7. CASE o \notin spoiled
  <2>1. /\ linked[c] /\ Exists(DataFile(o))
        /\ n \in Nat /\ n <= Blocks[o] /\ k \in 1..(n + 1) /\ k <= Blocks[o]
        /\ (IF k > n THEN k ELSE n) \in Nat
    <3>1. linked[c] /\ Exists(DataFile(o)) /\ written[c] < Blocks[o] /\ written[c] <= n
      BY <1>7 DEF PutBlock, WriterOK, PutPhases
    <3>2. written[c] \in Nat /\ n \in 0..Blocks[o]
      BY <1>1, <1>7 DEF DataOK, Inv, TypeOK
    <3> QED
      BY <1>1, <3>1, <3>2
  <2>2. blocks' = [blocks EXCEPT ![o] = Goods(IF k > n THEN k ELSE n)]
    BY <1>1, <1>7, <2>1, OverwriteGood DEF PutBlock, DataOK
  <2>3. /\ blocks'[o] = Goods(IF k > n THEN k ELSE n)
        /\ Len(blocks'[o]) = (IF k > n THEN k ELSE n)
    BY <1>1, <2>1, <2>2, GoodsFact DEF Inv, TypeOK
  <2>4. Grows
    <3>1. \A p \in Outputs \ spoiled' : Len(blocks'[p]) >= Len(blocks[p])
      <4>1. Len(blocks'[o]) >= Len(blocks[o])
        BY <2>1, <2>3
      <4>2. \A p \in Outputs : Len(blocks[p]) \in Nat
        BY DEF Inv, TypeOK
      <4> QED
        BY <1>3, <4>1, <4>2
    <3>2. DataOK'
      <4> SUFFICES ASSUME NEW p \in Outputs \ spoiled
                   PROVE  /\ Len(blocks'[p]) \in 0..Blocks[p]
                          /\ blocks'[p] = Goods(Len(blocks'[p]))
                          /\ Exists(DataFile(p))' \/ Len(blocks'[p]) = 0
        BY <1>4 DEF DataOK, Exists
      <4>1. CASE p = o
        BY <1>1, <1>2, <2>1, <2>3, <4>1
      <4>2. CASE p # o
        BY <1>2, <1>3, <4>2 DEF DataOK
      <4> QED
        BY <4>1, <4>2
    <3> QED
      BY <1>2, <1>4, <3>1, <3>2 DEF Grows
  <2>5. Exists(DataFile(o))'
    BY <1>1, <1>2, <1>4, <2>1 DEF Exists
  <2>6. CASE k = Blocks[o]
    <3>1. Full(out[c])'
      BY <1>1, <1>4, <2>1, <2>3, <2>5, <2>6 DEF Full, Exists
    <3>2. WriterOK(c)'
      BY <1>5, <2>6, <3>1 DEF WriterOK
    <3> QED
      BY <1>4, <2>4, <3>2, WriterStep DEF PutBlock
  <2>7. CASE k # Blocks[o]
    <3>1. k < Blocks[o] /\ k <= Len(blocks'[o])
      BY <1>1, <2>1, <2>3, <2>7
    <3>2. WriterOK(c)'
      BY <1>4, <1>5, <2>1, <2>5, <2>7, <3>1 DEF WriterOK, Exists
    <3> QED
      BY <1>4, <2>4, <3>2, WriterStep DEF PutBlock
  <2> QED
    BY <2>6, <2>7
<1> QED
  BY <1>6, <1>7

LEMMA WritersPut ==
    ASSUME WritersInv, NEW c \in Clients, PutStep(c), Inv'
    PROVE  WritersInv'
<1> USE DEF WritersInv
<1> DEFINE o == out[c]
           f == IndexFile(id[c])
<1>1. pc[c] \in PutPhases /\ id[c] \in Ids /\ o \in Outputs /\ DataFile(o) \in Files /\ f \in Files
  BY FilesFact DEF PutStep, PutStat, PutHash, PutOpen, PutBlock, PutBlockFails,
         PutCommit, PutCommitFails, PutCloseFails, PutIndexOpen, PutIndexWrite,
         PutIndexWriteFails, PutIndexRemove, PutIndexTouch, PutPhases, Inv, PhaseOK
<1>2. CASE PutStat(c)
  <2>1. Grows
    BY <1>2, SameFilesGrow DEF PutStat, fileVars, Exists
  <2>2. o \notin spoiled => ~OpenTruncates(c)'
    BY <1>1, <1>2, CacheAssumption DEF CacheAssumption, PutStat, OpenTruncates, DataOK, Inv, TypeOK
  <2>3. OthersStay(c) /\ WriterOK(c)'
    BY <1>2, <2>2 DEF PutStat, Inv, TypeOK, OthersStay, WriterOK, Goto
  <2> QED
    BY <1>2, <2>1, <2>3, WriterStep DEF PutStat, fileVars
<1>3. CASE PutHash(c)
  <2>1. Grows
    BY <1>3, SameFilesGrow DEF PutHash, fileVars, Exists
  <2>2. OthersStay(c) /\ written'[c] = 0 /\ out'[c] = o /\ spoiled' = spoiled
        /\ (o \notin spoiled => ~OpenTruncates(c)')
    BY <1>1, <1>3 DEF PutHash, Inv, TypeOK, OthersStay, WriterOK, Goto, OpenTruncates
  <2>3. Complete(o) /\ o \notin spoiled => Full(out[c])'
    BY <1>1, <1>3, FullIsComplete DEF PutHash, fileVars, Full, Exists
  <2>4. pc'[c] = (IF Complete(o) THEN "indexOpen" ELSE "open")
    BY <1>3 DEF PutHash, Inv, TypeOK, Goto
  <2>5. WriterOK(c)'
    BY <2>2, <2>3, <2>4 DEF WriterOK
  <2> QED
    BY <1>3, <2>1, <2>2, <2>5, WriterStep DEF PutHash, fileVars
<1>4. CASE PutBlockFails(c)
  <2>1. \A p \in Outputs \ spoiled' :
           blocks'[p] = blocks[p] /\ (Exists(DataFile(p)) => Exists(DataFile(p))')
    <3>1. o \in spoiled'
      BY <1>1, <1>4 DEF PutBlockFails, Spoil
    <3>2. \A p \in Outputs \ {o} : blocks'[p] = blocks[p]
      BY <1>4 DEF PutBlockFails, Inv, TypeOK
    <3>3. \A p \in Outputs : Exists(DataFile(p)) => Exists(DataFile(p))'
      BY <1>1, <1>4, TouchKeeps DEF PutBlockFails, Inv
    <3> QED
      BY <3>1, <3>2, <3>3
  <2>2. Grows
    BY <1>4, <2>1, SameFilesGrow DEF PutBlockFails, Spoil
  <2>3. OthersStay(c) /\ WriterOK(c)'
    BY <1>4, ReturnWriter DEF PutBlockFails
  <2> QED
    BY <1>4, <2>2, <2>3, WriterStep DEF PutBlockFails
<1>5. CASE PutCommit(c)
  <2>1. Grows
    BY <1>1, <1>5, SameFilesGrow, TouchKeeps DEF PutCommit, Inv
  <2>2. o \notin spoiled => Full(out[c])'
    BY <1>1, <1>5, <2>1, FullStays DEF PutCommit, WriterOK, Full, Exists
  <2>3. OthersStay(c) /\ WriterOK(c)'
    BY <1>5, <2>2 DEF PutCommit, Inv, TypeOK, OthersStay, WriterOK, Goto, Closed
  <2> QED
    BY <1>5, <2>1, <2>3, WriterStep DEF PutCommit
<1>6. CASE PutCommitFails(c)
  <2>1. Grows
    BY <1>6, SameFilesGrow DEF PutCommitFails, fileVars, Exists
  <2>2. OthersStay(c) /\ WriterOK(c)'
    BY <1>6, ReturnWriter DEF PutCommitFails
  <2> QED
    BY <1>6, <2>1, <2>2, WriterStep DEF PutCommitFails, fileVars
<1>7. CASE PutCloseFails(c)
  <2>1. Grows /\ \A i \in Ids : index'[i] \in {index[i], None}
    BY <1>1, <1>7, UnlinkGrows DEF PutCloseFails
  <2>2. \A d \in Clients : pc[d] = "copy" /\ out[d] \notin spoiled' => linked'[d] = linked[d]
    BY <1>1, <1>7, UnlinkOthers DEF PutCloseFails
  <2>3. OthersStay(c) /\ WriterOK(c)'
    BY <1>7, <2>2 DEF PutCloseFails, Inv, TypeOK, Return, Goto, OthersStay, WriterOK, PutPhases
  <2> QED
    BY <2>1, <2>3, WriterStep
<1>8. CASE PutIndexOpen(c)
  <2>1. Grows
    BY <1>1, <1>8, SameFilesGrow, TouchKeeps DEF PutIndexOpen, Inv
  <2>2. o \notin spoiled => Full(out[c])'
    BY <1>1, <1>8, <2>1, FullStays DEF PutIndexOpen, WriterOK, Full, Exists
  <2>3. OthersStay(c) /\ WriterOK(c)'
    BY <1>8, <2>2 DEF PutIndexOpen, Inv, TypeOK, OthersStay, WriterOK, Goto
  <2> QED
    BY <1>8, <2>1, <2>3, WriterStep DEF PutIndexOpen
<1>9. CASE PutIndexWrite(c)
  <2>1. Grows
    BY <1>1, <1>9, SameFilesGrow, TouchKeeps DEF PutIndexWrite, Inv
  <2>2. (o \notin spoiled => Full(out[c])') /\ out' = out /\ spoiled' = spoiled
    BY <1>1, <1>9, <2>1, FullStays DEF PutIndexWrite, WriterOK, Full, Exists
  <2>3. OthersStay(c) /\ WriterOK(c)'
    BY <1>9, <2>2 DEF PutIndexWrite, Inv, TypeOK, OthersStay, WriterOK, Goto, Closed
  <2>4. \A i \in Ids : index'[i] = index[i] \/ index'[i] = o
    BY <1>9 DEF PutIndexWrite, Inv, TypeOK
  <2>5. \A i \in Ids : \/ index'[i] \in {index[i], None}
                       \/ index'[i] \notin spoiled' => Full(index[i])'
    BY <2>2, <2>4 DEF Full, Exists
  <2> QED
    BY <2>1, <2>3, <2>5, WriterStep
<1>10. CASE PutIndexWriteFails(c)
  <2>1. Grows
    BY <1>1, <1>10, SameFilesGrow, TouchKeeps DEF PutIndexWriteFails, Inv
  <2>2. OthersStay(c) /\ WriterOK(c)'
    BY <1>10 DEF PutIndexWriteFails, Inv, TypeOK, OthersStay, WriterOK, Goto, Closed
  <2>3. \A i \in Ids : index'[i] \in {index[i], None}
    BY <1>10 DEF PutIndexWriteFails, Inv, TypeOK
  <2> QED
    BY <2>1, <2>2, <2>3, WriterStep
<1>11. CASE PutIndexRemove(c)
  <2>1. Spoil(f)
    BY <1>1, <1>11, FilesFact DEF PutIndexRemove, Spoil, Inv, TypeOK
  <2>2. Grows /\ \A i \in Ids : index'[i] \in {index[i], None}
    BY <1>1, <1>11, <2>1, UnlinkGrows DEF PutIndexRemove
  <2>3. \A d \in Clients : pc[d] = "copy" /\ out[d] \notin spoiled' => linked'[d] = linked[d]
    BY <1>1, <1>11, <2>1, UnlinkOthers DEF PutIndexRemove
  <2>4. OthersStay(c) /\ WriterOK(c)'
    BY <1>11, <2>3 DEF PutIndexRemove, Inv, TypeOK, Return, Goto, OthersStay, WriterOK, PutPhases
  <2> QED
    BY <2>2, <2>4, WriterStep
<1>12. CASE PutIndexTouch(c)
  <2>1. Grows
    BY <1>1, <1>12, SameFilesGrow, TouchKeeps DEF PutIndexTouch, Inv
  <2>2. OthersStay(c) /\ WriterOK(c)'
    BY <1>12, ReturnWriter DEF PutIndexTouch
  <2> QED
    BY <1>12, <2>1, <2>2, WriterStep DEF PutIndexTouch
<1> QED
  BY <1>2, <1>3, <1>4, <1>5, <1>6, <1>7, <1>8, <1>9, <1>10, <1>11, <1>12,
     WritersOpen, WritersBlock DEF PutStep

LEMMA WritersGet ==
    ASSUME WritersInv, NEW c \in Clients, GetStep(c), Inv'
    PROVE  WritersInv'
<1> USE DEF WritersInv
<1>1. index' = index /\ blocks' = blocks /\ spoiled' = spoiled
  BY DEF GetStep, GetMiss, GetLookup, GetTouchIndex, GetTouchData, GetRead, GetReadFails,
         Misses, fileVars
<1>2. \A o \in Outputs : Exists(DataFile(o)) => Exists(DataFile(o))'
  <2>1. CASE UNCHANGED age
    BY <2>1 DEF Exists
  <2>2. CASE GetTouchIndex(c) /\ Used(IndexFile(id[c]))
    BY <2>2, FilesFact, TouchKeeps DEF GetTouchIndex, Inv, PhaseOK, Reading
  <2>3. CASE GetTouchData(c)
    BY <2>3, FilesFact, TouchKeeps DEF GetTouchData, Inv, PhaseOK, Reading
  <2> QED
    BY <2>1, <2>2, <2>3 DEF GetStep, GetMiss, GetLookup, GetTouchIndex, GetRead, GetReadFails,
                            Misses, fileVars
<1>3. Grows
  BY <1>1, <1>2, SameFilesGrow
<1>4. OthersStay(c) /\ WriterOK(c)'
  <2>1. CASE GetLookup(c) \/ GetTouchData(c) \/ (GetTouchIndex(c) /\ Exists(IndexFile(id[c])))
    BY <2>1 DEF GetLookup, GetTouchData, GetTouchIndex, Inv, TypeOK, OthersStay, WriterOK, Goto,
                PutPhases
  <2>2. CASE GetRead(c) \/ Misses(c)
    BY <2>2, ReturnWriter DEF GetRead, Misses
  <2> QED
    BY <2>1, <2>2 DEF GetStep, GetMiss, GetTouchIndex, GetReadFails
<1> QED
  BY <1>1, <1>3, <1>4, WriterStep

LEMMA WritersTrim ==
    ASSUME WritersInv, NEW c \in Clients, StartTrim(c) \/ TrimStep(c), Inv'
    PROVE  WritersInv'
<1> USE DEF WritersInv
<1>1. CASE TrimRemove(c)
  <2>1. Doomed(c) \in Files
    BY <1>1 DEF TrimRemove, Inv, PhaseOK
  <2>2. Grows /\ \A i \in Ids : index'[i] \in {index[i], None}
    BY <1>1, <2>1, UnlinkGrows DEF TrimRemove
  <2>3. \A d \in Clients : pc[d] = "copy" /\ out[d] \notin spoiled' => linked'[d] = linked[d]
    BY <1>1, <2>1, UnlinkOthers DEF TrimRemove
  <2>4. OthersStay(c) /\ WriterOK(c)'
    BY <1>1, <2>3 DEF TrimRemove, Inv, TypeOK, Goto, OthersStay, WriterOK, PutPhases
  <2> QED
    BY <2>2, <2>4, WriterStep
<1>2. CASE ~TrimRemove(c)
  <2>1. index' = index /\ blocks' = blocks /\ age' = age /\ spoiled' = spoiled
    BY <1>2 DEF StartTrim, TrimStep, TrimKeep, TrimExpired, TrimDone, fileVars
  <2>2. Grows
    BY <2>1, SameFilesGrow DEF Exists
  <2>3. OthersStay(c) /\ WriterOK(c)'
    <3>1. CASE TrimDone(c)
      BY <3>1, ReturnWriter DEF TrimDone
    <3>2. CASE StartTrim(c) \/ \E f \in Files : TrimKeep(c, f) \/ TrimExpired(c, f)
      BY ZenonT(60), <3>2 DEF StartTrim, TrimKeep, TrimExpired, Inv, TypeOK, Goto,
                         OthersStay, WriterOK, PutPhases
    <3> QED
      BY <1>2, <3>1, <3>2 DEF TrimStep
  <2> QED
    BY <2>1, <2>2, <2>3, WriterStep
<1> QED
  BY <1>1, <1>2

LEMMA WritersStart ==
    ASSUME WritersInv, Inv', NEW c \in Clients,
           \/ \E i \in Ids, o \in Outputs : StartPut(c, i, o)
           \/ \E i \in Ids : StartGet(c, i)
           \/ Crash(c)
    PROVE  WritersInv'
<1> USE DEF WritersInv
<1>1. index' = index /\ blocks' = blocks /\ age' = age /\ spoiled' = spoiled
  BY DEF StartPut, StartGet, Crash, fileVars
<1>2. Grows
  BY <1>1, SameFilesGrow DEF Exists
<1>3. OthersStay(c) /\ WriterOK(c)'
  <2>1. CASE Crash(c)
    BY <2>1, ReturnWriter DEF Crash
  <2>2. CASE \E i \in Ids, o \in Outputs : StartPut(c, i, o)
    BY ZenonT(60), <2>2 DEF StartPut, Inv, TypeOK, OthersStay, WriterOK, Goto
  <2>3. CASE \E i \in Ids : StartGet(c, i)
    BY <2>3 DEF StartGet, Inv, TypeOK, OthersStay, WriterOK, Goto, PutPhases
  <2> QED
    BY <2>1, <2>2, <2>3
<1> QED
  BY <1>1, <1>2, <1>3, WriterStep

LEMMA WritersTick ==
    ASSUME WritersInv, Inv', Tick \/ UNCHANGED vars
    PROVE  WritersInv'
<1> USE DEF WritersInv
<1>1. UNCHANGED <<index, blocks, clientVars, spoiled>>
  BY DEF Tick, vars, fileVars
<1>2. \A f \in Files : Exists(f) <=> Exists(f)'
  <2>1. None \notin Int
    BY CacheAssumption DEF CacheAssumption
  <2>2. CASE Tick
    BY <2>1, <2>2, MaxAgeFact DEF Tick, Older, Exists, Inv, TypeOK
  <2>3. CASE UNCHANGED vars
    BY <2>3 DEF vars, fileVars, Exists
  <2> QED
    BY <2>2, <2>3
<1>3. \A o \in Outputs : Exists(DataFile(o)) <=> Exists(DataFile(o))'
  BY <1>2, FilesFact
<1>4. \A o \in Outputs : Full(o) => (Exists(DataFile(o))' /\ Len(blocks'[o]) = Blocks[o])
  BY <1>1, <1>3 DEF Full
<1>5. DataOK'
  BY <1>1, <1>3 DEF DataOK, Exists
<1>6. IndexOK'
  BY <1>1, <1>4 DEF IndexOK, Full, Exists, Inv, TypeOK
<1>7. ASSUME NEW c \in Clients
      PROVE  WriterOK(c)'
  <2>1. /\ pc' = pc /\ out' = out /\ seen' = seen /\ written' = written
        /\ linked' = linked /\ blocks' = blocks /\ spoiled' = spoiled
    BY <1>1 DEF clientVars
  <2>2. pc[c] \in PutPhases => out[c] \in Outputs
    BY DEF Inv, PhaseOK
  <2>3. CASE pc[c] \in PutPhases
    <3>1. Exists(DataFile(out[c])) => Exists(DataFile(out[c]))'
      BY <1>3, <2>1, <2>2, <2>3 DEF Exists
    <3>2. Full(out[c]) => Full(out[c])'
      BY <2>1, <3>1 DEF Full
    <3> QED
      BY <2>1, <2>3, <3>1, <3>2 DEF WriterOK, OpenTruncates
  <2>4. CASE pc[c] \notin PutPhases
    BY <2>1, <2>4 DEF WriterOK
  <2> QED
    BY <2>3, <2>4
<1> QED
  BY <1>5, <1>6, <1>7

(* Any number of processes that put, get and trim anything, and may die at *)
(* any step, leave every entry of the index with its complete data file,   *)
(* but for outputs that met with an I/O error, a trim or damage.           *)
THEOREM EntriesStayComplete == Spec => []IndexedOutputsComplete
<1>1. Init => WritersInv
  BY WritersInit
<1>2. WritersInv /\ [Next]_vars => WritersInv'
  <2> SUFFICES ASSUME WritersInv, [Next]_vars PROVE WritersInv'
    OBVIOUS
  <2>1. Inv'
    BY NextInv DEF WritersInv
  <2> QED
    BY <2>1, WritersPut, WritersGet, WritersTrim, WritersStart, WritersTick DEF Next
<1>3. WritersInv => IndexedOutputsComplete
  BY FullIsComplete DEF WritersInv, Inv, TypeOK, IndexOK, IndexedOutputsComplete
<1> QED
  BY <1>1, <1>2, <1>3, PTL DEF Spec

-----------------------------------------------------------------------------
(* Trims and uses: no tick falls in the middle of an operation, so an age  *)
(* that a step finds is the age that the steps after it rely on.           *)

(* A file's age may only fall or end, unless a tick makes all of them grow.*)
AgesFall == \A f \in Files : age'[f] \in {age[f], 0, None}

Fresh(f) == age[f] = None \/ age[f] < MtimeInterval \/ age[f] = 0

(* What a reader has used is fresh, no mtime is more than MtimeInterval    *)
(* behind the last hit, and a trim dooms nothing that a hit has spared.    *)
RecencyInv ==
    /\ lastGet \in [Files -> 0..MaxAge]
    /\ \A f \in Files : age[f] # None => age[f] <= lastGet[f] + MtimeInterval
    /\ \A c \in Clients :
          /\ pc[c] \in {"touchData", "read"} => Fresh(IndexFile(id[c]))
          /\ pc[c] = "read" => Fresh(DataFile(out[c]))
          /\ pc[c] = "trimRemove" => lastGet[Doomed(c)] = 0 \/ lastGet[Doomed(c)] > TrimLimit

LEMMA AgesOfPut ==
    ASSUME Inv, NEW c \in Clients, PutStep(c)
    PROVE  AgesFall
<1> USE DEF AgesFall, Inv, TypeOK, PhaseOK, PutPhases
<1>1. ASSUME PutStat(c) \/ PutHash(c) \/ PutCommitFails(c)
      PROVE  AgesFall
  BY <1>1 DEF PutStat, PutHash, PutCommitFails, fileVars
<1>2. ASSUME PutOpen(c) \/ PutBlock(c) \/ PutBlockFails(c) \/ PutCommit(c)
      PROVE  AgesFall
  BY <1>2, FilesFact DEF PutOpen, PutBlock, PutBlockFails, PutCommit, Touch
<1>3. ASSUME PutCloseFails(c) \/ PutIndexRemove(c)
      PROVE  AgesFall
  BY <1>3, FilesFact DEF PutCloseFails, PutIndexRemove, Unlink
<1>4. ASSUME PutIndexOpen(c) \/ PutIndexWrite(c) \/ PutIndexWriteFails(c) \/ PutIndexTouch(c)
      PROVE  AgesFall
  BY <1>4, FilesFact DEF PutIndexOpen, PutIndexWrite, PutIndexWriteFails, PutIndexTouch, Touch
<1> QED
  BY <1>1, <1>2, <1>3, <1>4 DEF PutStep

LEMMA AgesOfOthers ==
    ASSUME Inv, NEW c \in Clients,
           \/ \E i \in Ids, o \in Outputs : StartPut(c, i, o)
           \/ \E i \in Ids : StartGet(c, i)
           \/ StartTrim(c) \/ GetStep(c) \/ TrimStep(c) \/ Crash(c)
    PROVE  AgesFall
<1> USE DEF AgesFall, Inv, TypeOK, PhaseOK, fileVars
<1>1. ASSUME GetStep(c)
      PROVE  AgesFall
  BY <1>1, FilesFact DEF GetStep, GetMiss, GetLookup, GetTouchIndex, GetTouchData, GetRead,
                         GetReadFails, Misses, Used
<1>2. ASSUME TrimStep(c)
      PROVE  AgesFall
  BY <1>2, FilesFact DEF TrimStep, TrimKeep, TrimExpired, TrimRemove, TrimDone, Unlink
<1> QED
  BY <1>1, <1>2 DEF StartPut, StartGet, StartTrim, Crash

(* What a step of one client leaves to the others, and where it may get.   *)
Moved(c) ==
    /\ \A d \in Clients \ {c} : pc'[d] = pc[d] /\ id'[d] = id[d] /\ out'[d] = out[d]
    /\ pc[c] # "idle" \/ pc'[c] # "idle"
    /\ pc'[c] = "touchData" => GetTouchIndex(c)
    /\ pc'[c] = "read" => GetTouchData(c)
    /\ pc'[c] = "trimRemove" => \E f \in Files : TrimExpired(c, f)

LEMMA OneMoves ==
    ASSUME Inv, NEW c \in Clients,
           \/ \E i \in Ids, o \in Outputs : StartPut(c, i, o)
           \/ \E i \in Ids : StartGet(c, i)
           \/ StartTrim(c) \/ PutStep(c) \/ GetStep(c) \/ TrimStep(c) \/ Crash(c)
    PROVE  Moved(c)
<1> USE DEF Moved, Inv, TypeOK, Goto, Return
<1>1. ASSUME PutStat(c) \/ PutHash(c) \/ PutOpen(c) \/ PutBlock(c) \/ PutBlockFails(c)
             \/ PutCommit(c) \/ PutCommitFails(c) \/ PutCloseFails(c)
      PROVE  Moved(c)
  BY <1>1 DEF PutStat, PutHash, PutOpen, PutBlock, PutBlockFails, PutCommit, PutCommitFails, PutCloseFails
<1>2. ASSUME PutIndexOpen(c) \/ PutIndexWrite(c) \/ PutIndexWriteFails(c)
             \/ PutIndexRemove(c) \/ PutIndexTouch(c)
      PROVE  Moved(c)
  BY <1>2 DEF PutIndexOpen, PutIndexWrite, PutIndexWriteFails, PutIndexRemove, PutIndexTouch
<1>3. ASSUME GetMiss(c) \/ GetLookup(c) \/ GetRead(c) \/ GetReadFails(c)
      PROVE  Moved(c)
  BY <1>3 DEF GetMiss, GetLookup, GetRead, GetReadFails, Misses
<1>4. ASSUME GetTouchIndex(c)
      PROVE  Moved(c)
  <2>1. pc[c] = "touchIndex" /\ pc'[c] \in {"touchData", "idle"}
        /\ \A d \in Clients \ {c} : pc'[d] = pc[d] /\ id'[d] = id[d] /\ out'[d] = out[d]
    BY <1>4 DEF GetTouchIndex, Misses
  <2> QED
    BY <1>4, <2>1
<1>5. ASSUME GetTouchData(c)
      PROVE  Moved(c)
  <2>1. pc[c] = "touchData" /\ pc'[c] = "read"
        /\ \A d \in Clients \ {c} : pc'[d] = pc[d] /\ id'[d] = id[d] /\ out'[d] = out[d]
    BY <1>5 DEF GetTouchData
  <2> QED
    BY <1>5, <2>1
<1>6. ASSUME NEW f \in Files, TrimExpired(c, f)
      PROVE  Moved(c)
  <2>1. pc[c] = "trim" /\ pc'[c] = "trimRemove"
        /\ \A d \in Clients \ {c} : pc'[d] = pc[d] /\ id'[d] = id[d] /\ out'[d] = out[d]
    BY <1>6 DEF TrimExpired
  <2> QED
    BY <1>6, <2>1
<1>7. ASSUME TrimRemove(c) \/ TrimDone(c) \/ \E f \in Files : TrimKeep(c, f)
      PROVE  Moved(c)
  BY <1>7 DEF TrimRemove, TrimDone, TrimKeep
<1> QED
  BY <1>1, <1>2, <1>3, <1>4, <1>5, <1>6, <1>7
     DEF StartPut, StartGet, StartTrim, PutStep, GetStep, TrimStep, Crash

LastGetMoves ==
    lastGet' =
       [f \in Files |->
           IF \E c \in Clients : Hit(c) /\ f \in UsedBy(c) THEN 0
           ELSE IF \A c \in Clients : pc[c] = "idle" /\ pc'[c] = "idle"
                THEN Older(lastGet[f]) ELSE lastGet[f]]

LEMMA RecencyOfStep ==
    ASSUME Inv, Inv', RecencyInv, LastGetMoves, AgesFall, NEW c \in Clients, Moved(c)
    PROVE  RecencyInv'
<1>1. \A f \in Files :
         \/ lastGet'[f] = lastGet[f]
         \/ lastGet'[f] = 0 /\ Fresh(f)
  <2> TAKE f \in Files
  <2>1. ~(\A d \in Clients : pc[d] = "idle" /\ pc'[d] = "idle")
    BY DEF Moved
  <2>2. ASSUME NEW d \in Clients, Hit(d), f \in UsedBy(d)
        PROVE  Fresh(f)
    BY <2>2 DEF RecencyInv, Hit, UsedBy
  <2> QED
    BY <2>1, <2>2 DEF LastGetMoves
<1>2. \A f \in Files : age[f] \in 0..MaxAge \cup {None} /\ age'[f] \in 0..MaxAge \cup {None}
                      /\ lastGet[f] \in 0..MaxAge
  BY DEF Inv, TypeOK, RecencyInv
<1>3. None \notin Int /\ MtimeInterval \in Nat /\ TrimLimit \in Nat /\ MaxAge \in Nat
  BY CacheAssumption, MaxAgeFact DEF CacheAssumption
<1>4. lastGet' \in [Files -> 0..MaxAge]
  BY <1>1, <1>2, <1>3 DEF LastGetMoves
<1>5. ASSUME NEW f \in Files, age'[f] # None
      PROVE  age'[f] <= lastGet'[f] + MtimeInterval
  <2>1. age'[f] = 0 \/ (age'[f] = age[f] /\ age[f] <= lastGet[f] + MtimeInterval)
    BY <1>5 DEF AgesFall, RecencyInv
  <2>2. Fresh(f) /\ age'[f] = age[f] => age[f] <= MtimeInterval
    BY <1>2, <1>3, <1>5 DEF Fresh
  <2> QED
    BY <1>1, <1>2, <1>3, <1>4, <2>1, <2>2
<1>6. \A f \in Files : Fresh(f) => Fresh(f)'
  BY DEF Fresh, AgesFall
<1>7. ASSUME NEW d \in Clients
      PROVE  /\ pc'[d] \in {"touchData", "read"} => Fresh(IndexFile(id[d]))'
             /\ pc'[d] = "read" => Fresh(DataFile(out[d]))'
             /\ pc'[d] = "trimRemove" => lastGet'[Doomed(d)'] = 0 \/ lastGet'[Doomed(d)'] > TrimLimit
  <2>1. CASE d # c
    <3>1. pc'[d] = pc[d] /\ id'[d] = id[d] /\ out'[d] = out[d] /\ Doomed(d)' = Doomed(d)
      BY <2>1 DEF Moved, Doomed
    <3>2. pc[d] \in {"touchData", "read"} => IndexFile(id[d]) \in Files /\ DataFile(out[d]) \in Files
      BY FilesFact DEF Inv, PhaseOK, Reading
    <3>3. pc[d] \in {"touchData", "read"} => Fresh(IndexFile(id[d]))
      BY DEF RecencyInv
    <3>4. pc[d] = "read" => Fresh(DataFile(out[d]))
      BY DEF RecencyInv
    <3>5. pc[d] = "trimRemove" =>
             Doomed(d) \in Files /\ (lastGet[Doomed(d)] = 0 \/ lastGet[Doomed(d)] > TrimLimit)
      BY DEF RecencyInv, Inv, PhaseOK
    <3>6. pc'[d] \in {"touchData", "read"} => Fresh(IndexFile(id[d]))'
      BY <1>6, <3>1, <3>2, <3>3 DEF Fresh
    <3>7. pc'[d] = "read" => Fresh(DataFile(out[d]))'
      BY <1>6, <3>1, <3>2, <3>4 DEF Fresh
    <3> QED
      BY <1>1, <3>1, <3>5, <3>6, <3>7
  <2>2. CASE d = c /\ pc'[c] = "touchData"
    <3>1. GetTouchIndex(c) /\ pc'[c] # "idle"
      BY <2>2 DEF Moved
    <3>2. Used(IndexFile(id[c])) /\ id' = id /\ pc[c] = "touchIndex" /\ pc' = [pc EXCEPT ![c] = "touchData"]
      BY <3>1 DEF GetTouchIndex, Misses, Return, Goto, Inv, TypeOK
    <3>3. IndexFile(id[c]) \in Files
      BY <3>2, FilesFact DEF Inv, PhaseOK, Reading
    <3>4. age'[IndexFile(id[c])] = IF age[IndexFile(id[c])] # None /\ age[IndexFile(id[c])] >= MtimeInterval
                                   THEN 0 ELSE age[IndexFile(id[c])]
      BY <3>2, <3>3 DEF Used, Inv, TypeOK
    <3>5. Fresh(IndexFile(id[c]))'
      BY <1>2, <1>3, <3>2, <3>3, <3>4 DEF Fresh
    <3> QED
      BY <2>2, <3>5
  <2>3. CASE d = c /\ pc'[c] = "read"
    <3>1. GetTouchData(c)
      BY <2>3 DEF Moved
    <3>2. Used(DataFile(out[c])) /\ id' = id /\ out' = out /\ pc[c] = "touchData"
      BY <3>1 DEF GetTouchData
    <3>3. IndexFile(id[c]) \in Files /\ DataFile(out[c]) \in Files
      BY <3>2, FilesFact DEF Inv, PhaseOK, Reading
    <3>4. age'[DataFile(out[c])] = IF age[DataFile(out[c])] # None /\ age[DataFile(out[c])] >= MtimeInterval
                                   THEN 0 ELSE age[DataFile(out[c])]
      BY <3>2, <3>3 DEF Used, Inv, TypeOK
    <3>5. Fresh(DataFile(out[c]))'
      BY <1>2, <1>3, <3>2, <3>3, <3>4 DEF Fresh
    <3>6. Fresh(IndexFile(id[c]))'
      BY <1>6, <3>2, <3>3 DEF RecencyInv, Fresh
    <3> QED
      BY <2>3, <3>5, <3>6
  <2>4. CASE d = c /\ pc'[c] = "trimRemove"
    <3>1. PICK f \in Files : TrimExpired(c, f)
      BY <2>4 DEF Moved
    <3>2. Doomed(c)' = f
      <4>1. id'[c] = (IF f[1] = "a" THEN f[2] ELSE None) /\ out'[c] = (IF f[1] = "d" THEN f[2] ELSE None)
        BY <3>1 DEF TrimExpired, Inv, TypeOK
      <4>2. None \notin Ids
        BY CacheAssumption DEF CacheAssumption
      <4> QED
        BY <4>1, <4>2 DEF Doomed, Files
    <3>3. age[f] # None /\ age[f] > TrimLimit + MtimeInterval
      BY <3>1 DEF TrimExpired, Expired, Exists
    <3>4. lastGet[f] > TrimLimit
      BY <1>2, <1>3, <3>3 DEF RecencyInv
    <3> QED
      BY <1>1, <2>4, <3>2, <3>4
  <2> QED
    BY <2>1, <2>2, <2>3, <2>4
<1> QED
  BY <1>4, <1>5, <1>7 DEF RecencyInv

LEMMA RecencyOfTick ==
    ASSUME Inv, RecencyInv, LastGetMoves, Tick
    PROVE  RecencyInv'
<1>1. \A c \in Clients : pc[c] = "idle" /\ pc'[c] = "idle" /\ ~Hit(c)
  BY DEF Tick, clientVars, Hit
<1>2. \A f \in Files : lastGet'[f] = Older(lastGet[f]) /\ age'[f] = Older(age[f])
  BY <1>1 DEF LastGetMoves, Tick
<1>3. \A f \in Files : age[f] \in 0..MaxAge \cup {None} /\ lastGet[f] \in 0..MaxAge
  BY DEF Inv, TypeOK, RecencyInv
<1>4. None \notin Int /\ MtimeInterval \in Nat /\ MaxAge \in Nat
  BY CacheAssumption, MaxAgeFact DEF CacheAssumption
<1>5. lastGet' \in [Files -> 0..MaxAge]
  <2>1. \A f \in Files : Older(lastGet[f]) \in 0..MaxAge
    BY <1>3, <1>4 DEF Older
  <2> QED
    BY <1>2, <2>1 DEF LastGetMoves
<1>6. ASSUME NEW f \in Files, age'[f] # None
      PROVE  age'[f] <= lastGet'[f] + MtimeInterval
  <2>1. age[f] # None /\ age[f] <= lastGet[f] + MtimeInterval
    BY <1>2, <1>6 DEF Older, RecencyInv
  <2> QED
    BY <1>2, <1>3, <1>4, <2>1 DEF Older
<1> QED
  BY <1>1, <1>5, <1>6 DEF RecencyInv

LEMMA RecencyInvariant == RecencySpec => [](Inv /\ RecencyInv)
<1>1. RecencyInit => Inv /\ RecencyInv
  <2>1. ASSUME RecencyInit
        PROVE  RecencyInv
    <3>1. MaxAge \in Nat /\ MtimeInterval \in Nat
      BY CacheAssumption, MaxAgeFact DEF CacheAssumption
    <3>2. lastGet = [f \in Files |-> MaxAge] /\ pc = [c \in Clients |-> "idle"]
          /\ \A f \in Files : age[f] \in {MaxAge, None}
      BY <2>1 DEF RecencyInit, Init
    <3> QED
      BY <3>1, <3>2 DEF RecencyInv
  <2> QED
    BY <2>1, InitInv DEF RecencyInit
<1>2. Inv /\ RecencyInv /\ [RecencyNext]_<<vars, lastGet>> => (Inv /\ RecencyInv)'
  <2> SUFFICES ASSUME Inv, RecencyInv, [RecencyNext]_<<vars, lastGet>>
               PROVE  (Inv /\ RecencyInv)'
    OBVIOUS
  <2>1. CASE RecencyNext
    <3>1. Next /\ LastGetMoves
      BY <2>1 DEF RecencyNext, LastGetMoves
    <3>2. Inv'
      BY <3>1, NextInv
    <3>3. ASSUME NEW c \in Clients,
                 \/ \E i \in Ids, o \in Outputs : StartPut(c, i, o)
                 \/ \E i \in Ids : StartGet(c, i)
                 \/ StartTrim(c) \/ PutStep(c) \/ GetStep(c) \/ TrimStep(c) \/ Crash(c)
          PROVE  RecencyInv'
      <4>1. AgesFall
        BY <3>3, AgesOfPut, AgesOfOthers
      <4>2. Moved(c)
        BY <3>3, OneMoves
      <4> QED
        BY <3>1, <3>2, <4>1, <4>2, RecencyOfStep
    <3> QED
      BY <3>1, <3>2, <3>3, RecencyOfTick DEF Next
  <2>2. CASE UNCHANGED <<vars, lastGet>>
    BY <2>2, StutterInv DEF RecencyInv, Fresh, Doomed, vars, fileVars, clientVars
  <2> QED
    BY <2>1, <2>2
<1> QED
  BY <1>1, <1>2, PTL DEF RecencySpec

(* trimSubdir never removes a file that a hit has used within TrimLimit:   *)
(* the extra MtimeInterval of its cutoff covers what used leaves behind.   *)
THEOREM TrimKeepsUsedCorrect == RecencySpec => TrimKeepsUsed
<1>1. Inv /\ RecencyInv /\ [RecencyNext]_<<vars, lastGet>>
        => [\A f \in Files : (Removed(f) /\ lastGet[f] # 0) => lastGet[f] > TrimLimit]_vars
  BY DEF Removed, RecencyInv
<1> QED
  BY <1>1, RecencyInvariant, PTL DEF RecencySpec, TrimKeepsUsed
=============================================================================
