--------------------------- MODULE DistanceMatrix ---------------------------
(***************************************************************************)
(* What a distance matrix promises whoever asks it for routes, however it  *)
(* comes by them: every question is answered, with a route between the two *)
(* locations it was asked for, with zero if they are the same location, or *)
(* with what the error policy says.                                        *)
(***************************************************************************)
EXTENDS RouterConcepts

CONSTANTS
    Callers,      \* threads that use the matrix
    Locations,    \* the locations they ask for
    ErrorPolicy,  \* what is answered when no route is found
    NoRequest,    \* a caller that has asked for nothing yet
    NoReply       \* a caller that has no answer yet

VARIABLES
    request,      \* what each caller has asked for last
    reply         \* and what it was answered

matrix == <<request, reply>>

Pending(c) == request[c] # NoRequest /\ reply[c] = NoReply

Answers(q) ==
    {route(q.from, q.to), processError(ErrorPolicy, q.from, q.to)}
        \union {zero(q.from, q.to) : same \in {q.from} \intersect {q.to}}

Init ==
    /\ request = [c \in Callers |-> NoRequest]
    /\ reply = [c \in Callers |-> NoReply]

Ask(c) ==
    \E a, b \in Locations :
        /\ ~Pending(c)
        /\ request' = [request EXCEPT ![c] = [from |-> a, to |-> b]]
        /\ reply' = [reply EXCEPT ![c] = NoReply]

Answer(c) ==
    /\ Pending(c)
    /\ \E r \in Answers(request[c]) : reply' = [reply EXCEPT ![c] = r]
    /\ UNCHANGED request

Next == \E c \in Callers : Ask(c) \/ Answer(c)

Safety == Init /\ [][Next]_matrix

Spec == Safety /\ \A c \in Callers : WF_matrix(Answer(c))

=============================================================================
