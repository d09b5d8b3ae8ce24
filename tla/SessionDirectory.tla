-------------------------- MODULE SessionDirectory --------------------------
(***************************************************************************)
(* What the gate promises about its sessions, whatever the sockets and the *)
(* workers do: ids are handed out in order and never again, a session      *)
(* belongs to one worker at a time from its start to its end, and one that *)
(* ended never comes back.                                                 *)
(***************************************************************************)
EXTENDS Integers

CONSTANT Server   \* those a session can belong to

VARIABLES last,   \* the last session id handed out
          owner   \* session id -> its server, for the sessions that have not ended

Start(w) == /\ last' = last + 1
            /\ owner' = [i \in DOMAIN owner \cup {last'} |-> IF i = last' THEN w ELSE owner[i]]

Move(id, w) == /\ id \in DOMAIN owner
               /\ owner' = [owner EXCEPT ![id] = w]
               /\ UNCHANGED last

End(id) == /\ id \in DOMAIN owner
           /\ owner' = [i \in DOMAIN owner \ {id} |-> owner[i]]
           /\ UNCHANGED last

DirectoryInit == last = 0 /\ owner = [i \in {} |-> 0]
DirectoryNext == \/ \E w \in Server : Start(w)
                 \/ \E id \in DOMAIN owner : End(id) \/ \E w \in Server : Move(id, w)
DirectorySpec == DirectoryInit /\ [][DirectoryNext]_<<last, owner>>
=============================================================================
