------------------------ MODULE DirectRequestMatrix -------------------------
(***************************************************************************)
(* DirectRequestDistanceMatrixEngine: a matrix that asks the provider each *)
(* time.  It keeps nothing: addLocation gives every location the index 0,  *)
(* and an indexed location is passed to the provider as it is.             *)
(***************************************************************************)
EXTENDS RouterConcepts

CONSTANTS
    Callers, Locations, ErrorPolicy, NoRequest, NoReply,  \* see DistanceMatrix
    Unroutable        \* pairs of locations the provider may find no route for

DirectAssumption ==
    /\ ErrorPolicy \in ErrorPolicies
    /\ \A a, b \in Locations : [from |-> a, to |-> b] # NoRequest
    /\ \A a, b \in Locations :
           NoReply \notin {Thrown, route(a, b), zero(a, b), infinity(a, b)}

VARIABLES
    called,           \* what a caller asks the provider for
    request, reply    \* see DistanceMatrix

vars == <<called, request, reply>>

----------------------------------------------------------------------------
Init ==
    /\ called = [c \in Callers |-> NoRequest]
    /\ request = [c \in Callers |-> NoRequest]
    /\ reply = [c \in Callers |-> NoReply]

Call(c, a, b) ==
    /\ called[c] = NoRequest
    /\ called' = [called EXCEPT ![c] = [from |-> a, to |-> b]]
    /\ request' = [request EXCEPT ![c] = [from |-> a, to |-> b]]
    /\ reply' = [reply EXCEPT ![c] = NoReply]

\* Of raw locations, of indexed ones, or of indexed ones of another matrix.
getRouteDetails(c) == \E a, b \in Locations : Call(c, a, b)

Return(c, r) ==
    /\ called' = [called EXCEPT ![c] = NoRequest]
    /\ reply' = [reply EXCEPT ![c] = r]
    /\ UNCHANGED request

ProviderAnswers(c) ==
    /\ called[c] # NoRequest
    /\ \/ Return(c, route(called[c].from, called[c].to))
       \/ /\ called[c].from = called[c].to
          /\ Return(c, zero(called[c].from, called[c].to))

ProviderThrows(c) ==
    /\ called[c] # NoRequest
    /\ <<called[c].from, called[c].to>> \in Unroutable
    /\ Return(c, processError(ErrorPolicy, called[c].from, called[c].to))

----------------------------------------------------------------------------
Next ==
    \E c \in Callers : getRouteDetails(c) \/ ProviderAnswers(c) \/ ProviderThrows(c)

Spec == Init /\ [][Next]_vars

\* Callers that use the matrix at the same time each get a route between the
\* locations they asked for, or what the error policy says.
DM == INSTANCE DistanceMatrix
ImplementsDistanceMatrix == DM!Safety

=============================================================================
