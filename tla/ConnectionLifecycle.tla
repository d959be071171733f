------------------------- MODULE ConnectionLifecycle ------------------------
(***************************************************************************)
(* What a TcpConnection and its TcpServer promise one another about the    *)
(* life of one connection, without loops, channels and references: it is   *)
(* reported up once and down once, the server holds it from before the one *)
(* until after the other, and only when the server has let go is it taken  *)
(* out of its loop (destroyed) and freed.  The server lets go either       *)
(* because the connection is down, or because the server dies.             *)
(***************************************************************************)
VARIABLES
  life,     \* "none", "connecting", "up", "down", "destroyed" or "freed"
  held      \* the server has it in its map

lifeVars == <<life, held>>

Init == /\ life \in {"none", "connecting"}
        /\ held = (life = "connecting")

Create == life = "none" /\ life' \in {"connecting", "up"} /\ held' = TRUE

Establish == life = "connecting" /\ life' = "up" /\ UNCHANGED held

(* In one loop with its server, the connection is let go at once. *)
Close == life = "up" /\ life' = "down" /\ (held' = held \/ held' = FALSE)

LetGo == life = "down" /\ held /\ held' = FALSE /\ UNCHANGED life

Destroy == life = "down" /\ ~held /\ life' = "destroyed" /\ UNCHANGED held

Free == life = "destroyed" /\ life' = "freed" /\ UNCHANGED held

(* A server in the connection's loop destroys it with itself. *)
ServerDies ==
  /\ held /\ held' = FALSE
  /\ life' \in {life} \cup (IF life = "up" THEN {"destroyed", "freed"} ELSE {})

Next == Create \/ Establish \/ Close \/ LetGo \/ Destroy \/ Free \/ ServerDies

Spec == Init /\ [][Next]_lifeVars
=============================================================================
