----------------------------- MODULE DiskCache -----------------------------
(***************************************************************************)
(* internal/go/cache's DiskCache: a directory shared by the goroutines of  *)
(* several golangci-lint processes.  An index file <id>-a names an output, *)
(* a data file <output>-d holds it, trim.txt dates the last trim.  No lock *)
(* protects the first two: writers of the same file, readers and trims     *)
(* interleave, and a process may die between any two steps.                *)
(*                                                                         *)
(* A data file is named by the hash of its content, so all its writers     *)
(* write the same blocks; a block is "good" or, after a truncation under a *)
(* writer's feet or damage from outside, "bad".  Time is counted in ticks; *)
(* a file's mtime is kept as its age, up to MaxAge, and no tick falls in   *)
(* the middle of an operation: operations are short against an hour.       *)
(***************************************************************************)
EXTENDS Integers, Sequences

CONSTANTS
    Ids, Outputs, Clients, Miss, None,
    Garbled,        \* what is read from a data file that is not complete
    Blocks,         \* Blocks[o]: the number of blocks of o; the last one is its last byte
    Operations,     \* the operations clients perform: "put", "get", "trim"
    Faults,         \* what may fail: "write", "close", "index", "crash"
    DamagedBlocks,  \* the contents a data file may have at the start
    MtimeInterval, TrimInterval, TrimLimit

Files == ({"a"} \X Ids) \cup ({"d"} \X Outputs)

MaxAge == TrimLimit + MtimeInterval + 1

ASSUME CacheAssumption ==
    /\ Blocks \in [Outputs -> Nat]
    /\ None \notin Outputs \cup Ids \cup {Miss} \cup Files \cup Int
    /\ {Miss, Garbled} \cap Outputs = {}
    /\ DamagedBlocks \subseteq Seq({"good", "bad"})
    /\ MtimeInterval \in Nat /\ TrimInterval \in Nat /\ TrimLimit \in Nat

VARIABLES
    index,      \* index[id]: the output named by the file id-a; None if absent or unreadable
    blocks,     \* blocks[o]: the content of the file o-d
    age,        \* age[f]: ticks since the mtime of f; None if f does not exist
    trimAge,    \* ticks since the time in trim.txt
    pc,         \* pc[c]: where client c is
    id,         \* id[c]: the action id of c's operation, or None
    out,        \* out[c]: the output c writes, or has found in the index
    seen,       \* seen[c]: the size copyFile's Stat returned, or None
    written,    \* written[c]: number of blocks c has written
    linked,     \* linked[c]: c's open file still has its name
    todo,       \* todo[c]: the files c's trim has not looked at
    reply,      \* reply[c]: what c's last operation returned: an output, Miss, or None
    spoiled     \* history: outputs whose file was damaged, removed, or failed to be written

fileVars   == <<index, blocks, age>>
clientVars == <<pc, id, out, seen, written, linked, todo, reply>>
vars == <<fileVars, trimAge, clientVars, spoiled>>

Phases == {"idle", "stat", "hash", "open", "copy", "commit",
           "indexOpen", "indexWrite", "indexRemove", "indexTouch",
           "lookup", "touchIndex", "touchData", "read", "trim", "trimRemove"}

Reading == {"lookup", "touchIndex", "touchData", "read"}

TypeOK ==
    /\ index \in [Ids -> Outputs \cup {None}]
    /\ blocks \in [Outputs -> Seq({"good", "bad"})]
    /\ age \in [Files -> 0..MaxAge \cup {None}]
    /\ trimAge \in 0..MaxAge
    /\ pc \in [Clients -> Phases]
    /\ id \in [Clients -> Ids \cup {None}]
    /\ out \in [Clients -> Outputs \cup {None}]
    /\ seen \in [Clients -> Nat \cup {None}]
    /\ written \in [Clients -> Nat]
    /\ linked \in [Clients -> BOOLEAN]
    /\ todo \in [Clients -> SUBSET Files]
    /\ reply \in [Clients -> Outputs \cup {Miss, None}]
    /\ spoiled \subseteq Outputs

IndexFile(i) == <<"a", i>>
DataFile(o)  == <<"d", o>>
Exists(f) == age[f] # None

AllGood(o) == [i \in 1..Blocks[o] |-> "good"]
Complete(o) == Exists(DataFile(o)) /\ blocks[o] = AllGood(o)

(* Files that exist at the start are old and may be damaged. *)
Init ==
    /\ blocks \in [Outputs -> DamagedBlocks \cup {<<>>}]
    /\ index = [i \in Ids |-> None]
    /\ age = [f \in Files |-> IF f[1] = "d" /\ blocks[f[2]] # <<>> THEN MaxAge ELSE None]
    /\ trimAge = MaxAge
    /\ pc = [c \in Clients |-> "idle"]
    /\ id = [c \in Clients |-> None]
    /\ out = [c \in Clients |-> None]
    /\ seen = [c \in Clients |-> None]
    /\ written = [c \in Clients |-> 0]
    /\ linked = [c \in Clients |-> FALSE]
    /\ todo = [c \in Clients |-> {}]
    /\ reply = [c \in Clients |-> None]
    /\ spoiled = {o \in Outputs : blocks[o] # <<>>}

-----------------------------------------------------------------------------
Goto(c, label) == pc' = [pc EXCEPT ![c] = label]

(* The operation of c is over: the client forgets everything but a reply.  *)
Return(c) ==
    /\ Goto(c, "idle")
    /\ id' = [id EXCEPT ![c] = None]
    /\ out' = [out EXCEPT ![c] = None]
    /\ seen' = [seen EXCEPT ![c] = None]
    /\ written' = [written EXCEPT ![c] = 0]
    /\ todo' = [todo EXCEPT ![c] = {}]

Closed(c) == [linked EXCEPT ![c] = FALSE]

Touch(f) == age' = [age EXCEPT ![f] = 0]

(* The clients that have f open keep a file without a name. *)
OpenFor(c, f) ==
    \/ pc[c] \in {"copy", "commit"} /\ f = DataFile(out[c])
    \/ pc[c] = "indexWrite" /\ f = IndexFile(id[c])

Unlink(f) ==
    /\ age' = [age EXCEPT ![f] = None]
    /\ index' = [i \in Ids |-> IF f = IndexFile(i) THEN None ELSE index[i]]
    /\ blocks' = [o \in Outputs |-> IF f = DataFile(o) THEN <<>> ELSE blocks[o]]

Spoil(f) == spoiled' = spoiled \cup {o \in Outputs : f = DataFile(o)}

StillLinked(f) == [c \in Clients |-> linked[c] /\ ~OpenFor(c, f)]

-----------------------------------------------------------------------------
(* put: hash the content, copyFile, putIndexEntry. *)

StartPut(c, i, o) ==
    /\ "put" \in Operations
    /\ pc[c] = "idle"
    /\ Goto(c, "stat")
    /\ id' = [id EXCEPT ![c] = i]
    /\ out' = [out EXCEPT ![c] = o]
    /\ reply' = [reply EXCEPT ![c] = None]
    /\ UNCHANGED <<fileVars, trimAge, seen, written, linked, todo, spoiled>>

PutStat(c) ==
    /\ pc[c] = "stat"
    /\ LET size == IF Exists(DataFile(out[c])) THEN Len(blocks[out[c]]) ELSE None
       IN  /\ seen' = [seen EXCEPT ![c] = size]
           /\ Goto(c, IF size = Blocks[out[c]] THEN "hash" ELSE "open")
    /\ UNCHANGED <<fileVars, trimAge, id, out, written, linked, todo, reply, spoiled>>

(* An output that is there already is neither written nor touched.         *)
PutHash(c) ==
    /\ pc[c] = "hash"
    /\ Goto(c, IF Complete(out[c]) THEN "indexOpen" ELSE "open")
    /\ UNCHANGED <<fileVars, trimAge, id, out, seen, written, linked, todo, reply, spoiled>>

(* Mutant of OpenTruncates: os.WriteFile's O_TRUNC.                        *)
OpenAlwaysTruncates(c) == TRUE

(* O_TRUNC only if Stat saw a file that is too long. *)
OpenTruncates(c) == seen[c] # None /\ seen[c] > Blocks[out[c]]

PutOpen(c) ==
    /\ pc[c] = "open"
    /\ LET o == out[c]
           f == DataFile(o)
           empties == ~Exists(f) \/ OpenTruncates(c)
       IN  /\ blocks' = [blocks EXCEPT ![o] = IF empties THEN <<>> ELSE @]
           /\ age' = [age EXCEPT ![f] = IF empties THEN 0 ELSE @]
           /\ Goto(c, IF Blocks[o] = 0 THEN "indexOpen" ELSE "copy")
    /\ seen' = [seen EXCEPT ![c] = None]
    /\ linked' = [linked EXCEPT ![c] = Blocks[out[c]] # 0]
    /\ UNCHANGED <<index, trimAge, id, out, written, todo, reply, spoiled>>

(* Writing block k of a file: what lies before it may still be a hole.     *)
Overwrite(content, k) ==
    [i \in 1..(IF k > Len(content) THEN k ELSE Len(content)) |->
        IF i = k THEN "good" ELSE IF i <= Len(content) THEN content[i] ELSE "bad"]

PutBlock(c) ==
    /\ pc[c] = "copy"
    /\ LET o == out[c]
           k == written[c] + 1
       IN  /\ blocks' = IF linked[c] THEN [blocks EXCEPT ![o] = Overwrite(@, k)] ELSE blocks
           /\ age' = IF linked[c] THEN [age EXCEPT ![DataFile(o)] = 0] ELSE age
           /\ written' = [written EXCEPT ![c] = k]
           /\ Goto(c, IF k = Blocks[o] THEN "commit" ELSE "copy")
    /\ UNCHANGED <<index, trimAge, id, out, seen, linked, todo, reply, spoiled>>

(* The best-effort f.Truncate(0) of a failed copy. *)
PutBlockFails(c) ==
    /\ "write" \in Faults
    /\ pc[c] = "copy"
    /\ blocks' = IF linked[c] THEN [blocks EXCEPT ![out[c]] = <<>>] ELSE blocks
    /\ age' = IF linked[c] THEN [age EXCEPT ![DataFile(out[c])] = 0] ELSE age
    /\ Spoil(DataFile(out[c]))
    /\ Return(c)
    /\ linked' = Closed(c)
    /\ UNCHANGED <<index, trimAge, reply>>

(* Close, then Chtimes by name: without the name the Put fails.            *)
PutCommit(c) ==
    /\ pc[c] = "commit"
    /\ Exists(DataFile(out[c]))
    /\ Touch(DataFile(out[c]))
    /\ Goto(c, "indexOpen")
    /\ written' = [written EXCEPT ![c] = 0]
    /\ linked' = Closed(c)
    /\ UNCHANGED <<index, blocks, trimAge, id, out, seen, todo, reply, spoiled>>

PutCommitFails(c) ==
    /\ pc[c] = "commit"
    /\ ~Exists(DataFile(out[c]))
    /\ Return(c)
    /\ linked' = Closed(c)
    /\ UNCHANGED <<fileVars, trimAge, reply, spoiled>>

PutCloseFails(c) ==
    /\ "close" \in Faults
    /\ pc[c] = "commit"
    /\ Unlink(DataFile(out[c]))
    /\ linked' = StillLinked(DataFile(out[c]))
    /\ Spoil(DataFile(out[c]))
    /\ Return(c)
    /\ UNCHANGED <<trimAge, reply>>

PutIndexOpen(c) ==
    /\ pc[c] = "indexOpen"
    /\ age' = [age EXCEPT ![IndexFile(id[c])] = IF @ = None THEN 0 ELSE @]
    /\ linked' = [linked EXCEPT ![c] = TRUE]
    /\ Goto(c, "indexWrite")
    /\ UNCHANGED <<index, blocks, trimAge, id, out, seen, written, todo, reply, spoiled>>

(* One write of an entry of fixed size; the Truncate after it is a no-op.  *)
PutIndexWrite(c) ==
    /\ pc[c] = "indexWrite"
    /\ index' = IF linked[c] THEN [index EXCEPT ![id[c]] = out[c]] ELSE index
    /\ age' = IF linked[c] THEN [age EXCEPT ![IndexFile(id[c])] = 0] ELSE age
    /\ linked' = Closed(c)
    /\ Goto(c, "indexTouch")
    /\ UNCHANGED <<blocks, trimAge, id, out, seen, written, todo, reply, spoiled>>

(* A failed write may have garbled the entry.                              *)
PutIndexWriteFails(c) ==
    /\ "index" \in Faults
    /\ pc[c] = "indexWrite"
    /\ \/ UNCHANGED <<index, age>>
       \/ /\ linked[c]
          /\ index' = [index EXCEPT ![id[c]] = None]
          /\ Touch(IndexFile(id[c]))
    /\ linked' = Closed(c)
    /\ Goto(c, "indexRemove")
    /\ UNCHANGED <<blocks, trimAge, id, out, seen, written, todo, reply, spoiled>>

(* os.Remove by name, whoever has created the file in the meantime.        *)
PutIndexRemove(c) ==
    /\ pc[c] = "indexRemove"
    /\ Unlink(IndexFile(id[c]))
    /\ linked' = StillLinked(IndexFile(id[c]))
    /\ Return(c)
    /\ UNCHANGED <<trimAge, reply, spoiled>>

PutIndexTouch(c) ==
    /\ pc[c] = "indexTouch"
    /\ IF Exists(IndexFile(id[c])) THEN Touch(IndexFile(id[c])) ELSE UNCHANGED age
    /\ Return(c)
    /\ UNCHANGED <<index, blocks, trimAge, linked, reply, spoiled>>

-----------------------------------------------------------------------------
(* GetBytes: get, OutputFile, ReadFile and the checksum. *)

StartGet(c, i) ==
    /\ "get" \in Operations
    /\ pc[c] = "idle"
    /\ Goto(c, "lookup")
    /\ id' = [id EXCEPT ![c] = i]
    /\ reply' = [reply EXCEPT ![c] = None]
    /\ UNCHANGED <<fileVars, trimAge, out, seen, written, linked, todo, spoiled>>

Misses(c) ==
    /\ reply' = [reply EXCEPT ![c] = Miss]
    /\ Return(c)
    /\ UNCHANGED <<fileVars, trimAge, linked, spoiled>>

GetMiss(c) ==
    /\ pc[c] = "lookup"
    /\ index[id[c]] = None
    /\ Misses(c)

GetLookup(c) ==
    /\ pc[c] = "lookup"
    /\ index[id[c]] # None
    /\ out' = [out EXCEPT ![c] = index[id[c]]]
    /\ Goto(c, "touchIndex")
    /\ UNCHANGED <<fileVars, trimAge, id, seen, written, linked, todo, reply, spoiled>>

(* used: an mtime is refreshed only once it is MtimeInterval old; its Stat *)
(* and its Chtimes are one step here.                                      *)
Used(f) == age' = [age EXCEPT ![f] = IF @ # None /\ @ >= MtimeInterval THEN 0 ELSE @]

(* If the index file is gone, get fails with an error callers treat as a   *)
(* miss.                                                                   *)
GetTouchIndex(c) ==
    /\ pc[c] = "touchIndex"
    /\ IF Exists(IndexFile(id[c]))
       THEN /\ Used(IndexFile(id[c]))
            /\ Goto(c, "touchData")
            /\ UNCHANGED <<index, blocks, trimAge, id, out, seen, written, linked, todo,
                           reply, spoiled>>
       ELSE Misses(c)

GetTouchData(c) ==
    /\ pc[c] = "touchData"
    /\ Used(DataFile(out[c]))
    /\ Goto(c, "read")
    /\ UNCHANGED <<index, blocks, trimAge, id, out, seen, written, linked, todo, reply, spoiled>>

(* What ReadFile returns, named by the output it is the content of.        *)
Bytes(o) == IF Complete(o) THEN o ELSE Garbled

(* Mutant of ChecksumMatches: the size is checked instead.                 *)
SizeMatches(o) == Exists(DataFile(o)) /\ Len(blocks[o]) = Blocks[o]

ChecksumMatches(o) == Exists(DataFile(o)) /\ Bytes(o) = o

GetRead(c) ==
    /\ pc[c] = "read"
    /\ ChecksumMatches(out[c])
    /\ reply' = [reply EXCEPT ![c] = Bytes(out[c])]
    /\ Return(c)
    /\ UNCHANGED <<fileVars, trimAge, linked, spoiled>>

GetReadFails(c) ==
    /\ pc[c] = "read"
    /\ ~ChecksumMatches(out[c])
    /\ Misses(c)

-----------------------------------------------------------------------------
(* Close is Trim. *)

StartTrim(c) ==
    /\ "trim" \in Operations
    /\ pc[c] = "idle"
    /\ trimAge >= TrimInterval
    /\ todo' = [todo EXCEPT ![c] = {f \in Files : Exists(f)}]
    /\ Goto(c, "trim")
    /\ reply' = [reply EXCEPT ![c] = None]
    /\ UNCHANGED <<fileVars, trimAge, id, out, seen, written, linked, spoiled>>

(* Mutant of Expired: no allowance for the imprecision of the mtimes.      *)
ExpiredEarly(f) == Exists(f) /\ age[f] > TrimLimit

(* Older than the cutoff; the extra interval makes up for stale mtimes.    *)
Expired(f) == Exists(f) /\ age[f] > TrimLimit + MtimeInterval

(* trimSubdir: Stat and Remove are two steps. *)
TrimKeep(c, f) ==
    /\ pc[c] = "trim"
    /\ f \in todo[c]
    /\ ~Expired(f)
    /\ todo' = [todo EXCEPT ![c] = @ \ {f}]
    /\ UNCHANGED <<fileVars, trimAge, pc, id, out, seen, written, linked, reply, spoiled>>

TrimExpired(c, f) ==
    /\ pc[c] = "trim"
    /\ f \in todo[c]
    /\ Expired(f)
    /\ todo' = [todo EXCEPT ![c] = @ \ {f}]
    /\ id' = [id EXCEPT ![c] = IF f[1] = "a" THEN f[2] ELSE None]
    /\ out' = [out EXCEPT ![c] = IF f[1] = "d" THEN f[2] ELSE None]
    /\ Goto(c, "trimRemove")
    /\ UNCHANGED <<fileVars, trimAge, seen, written, linked, reply, spoiled>>

Doomed(c) == IF id[c] # None THEN IndexFile(id[c]) ELSE DataFile(out[c])

TrimRemove(c) ==
    /\ pc[c] = "trimRemove"
    /\ Unlink(Doomed(c))
    /\ Spoil(Doomed(c))
    /\ linked' = StillLinked(Doomed(c))
    /\ id' = [id EXCEPT ![c] = None]
    /\ out' = [out EXCEPT ![c] = None]
    /\ Goto(c, "trim")
    /\ UNCHANGED <<trimAge, seen, written, todo, reply>>

TrimDone(c) ==
    /\ pc[c] = "trim"
    /\ todo[c] = {}
    /\ trimAge' = 0
    /\ Return(c)
    /\ UNCHANGED <<fileVars, linked, reply, spoiled>>

-----------------------------------------------------------------------------
(* A process dies; its open files stay as they are. *)
Crash(c) ==
    /\ "crash" \in Faults
    /\ pc[c] # "idle"
    /\ Return(c)
    /\ linked' = Closed(c)
    /\ UNCHANGED <<fileVars, trimAge, reply, spoiled>>

Older(n) == IF n = None \/ n = MaxAge THEN n ELSE n + 1

Tick ==
    /\ \A c \in Clients : pc[c] = "idle"
    /\ age' = [f \in Files |-> Older(age[f])]
    /\ trimAge' = Older(trimAge)
    /\ UNCHANGED <<index, blocks, clientVars, spoiled>>

PutStep(c) ==
    \/ PutStat(c) \/ PutHash(c) \/ PutOpen(c)
    \/ PutBlock(c) \/ PutBlockFails(c)
    \/ PutCommit(c) \/ PutCommitFails(c) \/ PutCloseFails(c)
    \/ PutIndexOpen(c) \/ PutIndexWrite(c) \/ PutIndexWriteFails(c)
    \/ PutIndexRemove(c) \/ PutIndexTouch(c)

GetStep(c) ==
    \/ GetMiss(c) \/ GetLookup(c) \/ GetTouchIndex(c) \/ GetTouchData(c)
    \/ GetRead(c) \/ GetReadFails(c)

TrimStep(c) ==
    \/ \E f \in Files : TrimKeep(c, f) \/ TrimExpired(c, f)
    \/ TrimRemove(c) \/ TrimDone(c)

Next ==
    \/ \E c \in Clients :
          \/ \E i \in Ids, o \in Outputs : StartPut(c, i, o)
          \/ \E i \in Ids : StartGet(c, i)
          \/ StartTrim(c)
          \/ PutStep(c) \/ GetStep(c) \/ TrimStep(c)
          \/ Crash(c)
    \/ Tick

Spec == Init /\ [][Next]_vars

-----------------------------------------------------------------------------
(* Properties. *)

(* A hit of GetBytes is an output that was in the index under its id after *)
(* the call began, byte for byte, whatever writers, failures, crashes and  *)
(* trims do at the same time: the cache implements CacheMap.               *)
Map == INSTANCE CacheMap WITH
           content <- index,
           asked   <- [c \in Clients |-> IF pc[c] \in Reading THEN id[c] ELSE None],
           found   <- [c \in Clients |-> IF pc[c] \in Reading THEN out[c] ELSE None]

ImplementsMap == Map!MapSpec

(* putIndexEntry comes after copyFile, and copyFile never takes back what  *)
(* another writer has completed: whatever processes interleave and die, an *)
(* entry of the index names a complete file, unless the file has met with  *)
(* an I/O error, a trim, or damage from outside.                           *)
IndexedOutputsComplete ==
    \A i \in Ids : index[i] \notin spoiled \cup {None} => Complete(index[i])
=============================================================================
