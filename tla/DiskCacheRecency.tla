-------------------------- MODULE DiskCacheRecency --------------------------
(***************************************************************************)
(* DiskCache with a history of which files were used when, to relate what  *)
(* trims remove to what clients have recently got.                         *)
(***************************************************************************)
EXTENDS DiskCache

VARIABLE
    lastGet     \* lastGet[f]: ticks since GetBytes last hit f

UsedBy(c) == {IndexFile(id[c]), DataFile(out[c])}

Hit(c) == pc[c] = "read" /\ pc'[c] = "idle" /\ reply'[c] \in Outputs

RecencyInit ==
    /\ Init
    /\ lastGet = [f \in Files |-> MaxAge]

RecencyNext ==
    /\ Next
    /\ lastGet' =
          [f \in Files |->
              IF \E c \in Clients : Hit(c) /\ f \in UsedBy(c) THEN 0
              ELSE IF \A c \in Clients : pc[c] = "idle" /\ pc'[c] = "idle"
                   THEN Older(lastGet[f]) ELSE lastGet[f]]

RecencySpec == RecencyInit /\ [][RecencyNext]_<<vars, lastGet>>

Removed(f) ==
    /\ Exists(f) /\ ~Exists(f)'
    /\ \E c \in Clients : pc[c] = "trimRemove" /\ Doomed(c) = f /\ pc'[c] = "trim"

(* trimSubdir removes a file only if no GetBytes has hit it for TrimLimit, *)
(* though used refreshes mtimes only once per MtimeInterval.  A hit in the *)
(* very tick of the trim does not count: between the Stat and the Remove   *)
(* of trimSubdir it comes too late.                                        *)
TrimKeepsUsed ==
    [][\A f \in Files :
         (Removed(f) /\ lastGet[f] # 0) => lastGet[f] > TrimLimit]_vars
=============================================================================
