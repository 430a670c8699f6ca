---------------------------- MODULE FileContents ----------------------------
(***************************************************************************)
(* What the file system promises of the content of its files, with no      *)
(* storage blocks, no hashes, no sharing and no cache: every file block    *)
(* has a content of its own.                                               *)
(*                                                                         *)
(* A request names the units it may change, and works through them one     *)
(* block at a time.  It changes no other file and no other block.  Inside  *)
(* a block it writes, the units around the request keep their value or,    *)
(* as the cache cannot always tell the old data from none, all become      *)
(* zero together.                                                          *)
(***************************************************************************)
CONSTANTS Keys, Units, Bytes

VARIABLES
    content,   \* the content of each file block
    request,   \* the kind of the request at work and the units it may change yet
    alive      \* FALSE once the process has died: nothing is promised then

fvars == <<content, request, alive>>

Requests == [kind : {"none", "write", "drop"}, units : SUBSET (Keys \X Units)]
NoRequest == [kind |-> "none", units |-> {}]

Of(k) == {k} \X Units

Init ==
    /\ content = [k \in Keys |-> [u \in Units |-> 0]]
    /\ request = NoRequest
    /\ alive = TRUE

Begin ==
    /\ request.kind = "none"
    /\ request' \in Requests
    /\ UNCHANGED <<content, alive>>

\* Block k of the request gets its content.
Store(k) ==
    /\ request.units \cap Of(k) # {}
    /\ request' = [request EXCEPT !.units = @ \ Of(k)]
    /\ \A j \in Keys \ {k} : content'[j] = content[j]
    /\ content'[k] \in [Units -> Bytes]
    /\ \/ /\ request.kind = "write"
          /\ \/ \A u \in Units : <<k, u>> \notin request.units => content'[k][u] = content[k][u]
             \/ \A u \in Units : <<k, u>> \notin request.units => content'[k][u] = 0
       \/ /\ request.kind = "drop"
          /\ content'[k] = [u \in Units |-> 0]
    /\ UNCHANGED alive

\* A request may end early, with an error.
End ==
    /\ request' = NoRequest
    /\ UNCHANGED <<content, alive>>

Die == alive' = FALSE

Next ==
    /\ alive = TRUE
    /\ \/ Begin \/ End \/ Die
       \/ \E k \in Keys : Store(k)

Spec == Init /\ [][Next]_fvars
=============================================================================
