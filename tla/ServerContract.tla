--------------------------- MODULE ServerContract ---------------------------
(***************************************************************************)
(* What a server socket of CoreJS promises, without its descriptors, its   *)
(* events and its tables: a set of members.  A client that connects is     *)
(* taken in once, a member that goes is let go, a piece of what a member   *)
(* said is answered to it or, if it begins with "all", to every member,    *)
(* and each time the server is interrupted each member gets one notice.    *)
(* What is said and told is not lost, doubled, reordered or given to       *)
(* another client while the server is open.  The script may release the    *)
(* server whenever it is called; from then on it may end at any step, and  *)
(* what it does until then it does as before.                              *)
(***************************************************************************)
EXTENDS Integers, Sequences

CONSTANT Clients

VARIABLES
  phase,     \* "open", "closing" (the notice was sent) or "closed"
  released,  \* the script has closed the server object
  waiting,   \* clients that have connected and are not taken in
  joined,    \* clients that were ever taken in
  members,   \* those that have not been let go
  inbox,     \* what each client has said and the server has not received
  outbox,    \* what each client was told and has not read
  gone       \* clients that have left

vars == <<phase, released, waiting, joined, members, inbox, outbox, gone>>

Init ==
  /\ phase = "open" /\ released = FALSE
  /\ waiting = {} /\ joined = {} /\ members = {} /\ gone = {}
  /\ inbox = [c \in Clients |-> <<>>]
  /\ outbox = [c \in Clients |-> <<>>]

Serves == phase # "closed"

\* The script is called, and may release the server.
Callback == released' \in {released, TRUE}

\* One message more, words[c], for each client c of those that is still there.
Tell(those, words) ==
  outbox' = [c \in Clients |->
    IF c \in those \ gone THEN Append(outbox[c], words[c]) ELSE outbox[c]]

Join(c) ==
  /\ Serves
  /\ c \in waiting \ joined
  /\ waiting' = waiting \ {c}
  /\ joined' = joined \cup {c}
  /\ members' = members \cup {c}
  /\ Callback
  /\ UNCHANGED <<phase, inbox, outbox, gone>>

LetGo(c) ==
  /\ Serves
  /\ c \in members \cap gone
  /\ members' = members \ {c}
  /\ Callback
  /\ UNCHANGED <<phase, waiting, joined, inbox, outbox, gone>>

\* The answer to a piece that member c sent.
AnswerTo(c, piece) ==
  IF Head(piece) = "all"
  THEN Tell(members, [d \in Clients |-> IF d = c THEN "back" ELSE "reply"])
  ELSE Tell({c}, [d \in Clients |-> IF piece = <<"close">> THEN "close" ELSE "reply"])

Answer(c) ==
  /\ Serves
  /\ c \in members
  /\ \E n \in 1..Len(inbox[c]) :
       /\ AnswerTo(c, SubSeq(inbox[c], 1, n))
       /\ inbox' = [inbox EXCEPT ![c] = SubSeq(@, n + 1, Len(@))]
  /\ Callback
  /\ UNCHANGED <<phase, waiting, joined, members, gone>>

Notice ==
  /\ Serves
  /\ phase' = "closing"
  /\ Tell(members, [c \in Clients |-> "offline"])
  /\ UNCHANGED <<released, waiting, joined, members, inbox, gone>>

\* It ends after a notice, or because it was released, which may be while it
\* answers a piece.
Shut ==
  /\ Serves
  /\ Callback
  /\ phase = "closing" \/ released'
  /\ phase' = "closed"
  /\ \/ UNCHANGED inbox
     \/ \E c \in members : \E n \in 1..Len(inbox[c]) :
          inbox' = [inbox EXCEPT ![c] = SubSeq(@, n + 1, Len(@))]
  /\ UNCHANGED <<waiting, joined, members, outbox, gone>>

Release ==
  /\ Serves
  /\ released' = TRUE
  /\ UNCHANGED <<phase, waiting, joined, members, inbox, outbox, gone>>

-----------------------------------------------------------------------------
(* The clients.                                                            *)

Connect(c) ==
  /\ c \notin waiting \cup joined \cup gone
  /\ waiting' = waiting \cup {c}
  /\ UNCHANGED <<phase, released, joined, members, inbox, outbox, gone>>

Connected(c) == c \in (waiting \cup joined) \ gone

Say(c) ==
  /\ Connected(c)
  /\ \E line \in {"msg", "all", "close"} : inbox' = [inbox EXCEPT ![c] = Append(@, line)]
  /\ UNCHANGED <<phase, released, waiting, joined, members, outbox, gone>>

\* A client that is told to close, and nothing else, leaves.
Read(c) ==
  /\ Connected(c)
  /\ \E n \in 1..Len(outbox[c]) :
       /\ outbox' = [outbox EXCEPT ![c] = SubSeq(@, n + 1, Len(@))]
       /\ gone' = IF SubSeq(outbox[c], 1, n) = <<"close">> THEN gone \cup {c} ELSE gone
  /\ UNCHANGED <<phase, released, waiting, joined, members, inbox>>

\* What a closed server told may be lost.
Lose(c) ==
  /\ Connected(c) /\ phase = "closed"
  /\ outbox' = [outbox EXCEPT ![c] = <<>>]
  /\ UNCHANGED <<phase, released, waiting, joined, members, inbox, gone>>

Leave(c) ==
  /\ Connected(c)
  /\ gone' = gone \cup {c}
  /\ UNCHANGED <<phase, released, waiting, joined, members, inbox, outbox>>

Next ==
  \/ \E c \in Clients : Join(c) \/ LetGo(c) \/ Answer(c)
  \/ Notice \/ Shut \/ Release
  \/ \E c \in Clients : Connect(c) \/ Say(c) \/ Read(c) \/ Lose(c) \/ Leave(c)

Spec == Init /\ [][Next]_vars
=============================================================================
