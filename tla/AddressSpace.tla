---------------------------- MODULE AddressSpace ----------------------------
(***************************************************************************)
(* What the callers of map_pages and exec_process rely on, without tables, *)
(* caches or allocators: an address space is a set of pairs of a virtual   *)
(* page and its frame, and a call maps the pages it was asked for, one     *)
(* after the other, each to its frame, never replacing a mapping.  It may  *)
(* stop early, and then reports it.  A new process starts from the upper   *)
(* half of the space.                                                      *)
(***************************************************************************)
EXTENDS Integers

CONSTANT UpperHalf  \* the pages every address space shares

VARIABLES
  space,  \* pairs <<virtual page, frame>>
  req     \* the call: its state, page, frame, count, page size and progress

NoReq == [st |-> "idle", v |-> 0, p |-> 0, n |-> 0, span |-> 1, i |-> 0]

Chunk == 0 .. (req.span - 1)
NextPage(c) == req.v + req.i * req.span + c
NextFrame(c) == req.p + req.i * req.span + c

ASInit == space = {} /\ req = NoReq

Ask ==
  /\ req.st # "map"
  /\ req'.st \in {"map", "ok", "failed"} /\ req'.i = 0
  /\ (req'.st = "ok") => (req'.n = 0)
  /\ UNCHANGED space

MapNext ==
  /\ req.st = "map"
  /\ \A c \in Chunk : \A m \in space : m[1] # NextPage(c)
  /\ space' = space \union {<<NextPage(c), NextFrame(c)>> : c \in Chunk}
  /\ req' = [req EXCEPT !.i = @ + 1,
                        !.st = IF req.i + 1 = req.n THEN "ok" ELSE "map"]

GiveUp ==
  /\ req.st = "map"
  /\ req' = [req EXCEPT !.st = "failed"]
  /\ UNCHANGED space

Return ==
  /\ req.st \in {"ok", "failed"}
  /\ req' = NoReq
  /\ UNCHANGED space

NewProcess ==
  /\ req.st # "map"
  /\ space' = {m \in space : m[1] \in UpperHalf}
  /\ UNCHANGED req

ASNext == Ask \/ MapNext \/ GiveUp \/ Return \/ NewProcess

ASSpec == ASInit /\ [][ASNext]_<<space, req>>
=============================================================================
