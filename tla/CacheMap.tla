------------------------------ MODULE CacheMap ------------------------------
(***************************************************************************)
(* What the low-level cache promises its clients: a map from action ids to *)
(* outputs that may forget entries at any time and may answer any question *)
(* with a miss, but never answers with anything that was not stored under  *)
(* the id at some moment of the call.                                      *)
(***************************************************************************)
CONSTANTS
    Ids,        \* action ids
    Outputs,    \* contents that can be stored; a content is its own hash
    Clients,    \* the goroutines and processes that share the cache
    Miss,       \* the answer of a failed lookup
    None

VARIABLES
    content,    \* content[id]: the output stored under id, or None
    asked,      \* asked[c]: the id c is looking up, or None
    found,      \* found[c]: what the lookup of c has found so far, or None
    reply       \* reply[c]: the answer to c's last lookup

mapVars == <<content, asked, found, reply>>

MapInit ==
    /\ content \in [Ids -> Outputs \cup {None}]
    /\ asked = [c \in Clients |-> None]
    /\ found = [c \in Clients |-> None]
    /\ reply = [c \in Clients |-> None]

Store(id, o) ==
    /\ content' = [content EXCEPT ![id] = o]
    /\ UNCHANGED <<asked, found, reply>>

Forget(id) ==
    /\ content' = [content EXCEPT ![id] = None]
    /\ UNCHANGED <<asked, found, reply>>

Ask(c, id) ==
    /\ asked[c] = None
    /\ asked' = [asked EXCEPT ![c] = id]
    /\ reply' = [reply EXCEPT ![c] = None]
    /\ UNCHANGED <<content, found>>

(* A client turns to other things. *)
Drop(c) ==
    /\ asked[c] = None
    /\ reply' = [reply EXCEPT ![c] = None]
    /\ UNCHANGED <<content, asked, found>>

LookUp(c) ==
    /\ asked[c] # None
    /\ content[asked[c]] # None
    /\ found' = [found EXCEPT ![c] = content[asked[c]]]
    /\ UNCHANGED <<content, asked, reply>>

(* Ends a lookup with an answer, or without one if the client died.        *)
Answer(c) ==
    /\ asked[c] # None
    /\ \/ UNCHANGED reply
       \/ reply' = [reply EXCEPT ![c] = Miss]
       \/ found[c] # None /\ reply' = [reply EXCEPT ![c] = found[c]]
    /\ asked' = [asked EXCEPT ![c] = None]
    /\ found' = [found EXCEPT ![c] = None]
    /\ UNCHANGED content

MapNext ==
    \/ \E id \in Ids, o \in Outputs : Store(id, o)
    \/ \E id \in Ids : Forget(id)
    \/ \E c \in Clients : (\E id \in Ids : Ask(c, id)) \/ Drop(c) \/ LookUp(c) \/ Answer(c)

MapSpec == MapInit /\ [][MapNext]_mapVars
=============================================================================
