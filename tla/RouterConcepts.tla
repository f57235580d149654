--------------------------- MODULE RouterConcepts ---------------------------
(***************************************************************************)
(* The values the router is about: locations and the keys they are looked  *)
(* up by, and routes.  The length and duration of a route are left out: a  *)
(* route is known by the locations it was asked for and by its kind.       *)
(***************************************************************************)
EXTENDS Integers, Sequences

\* A coordinate is its encoded value, an integral number of microdegrees.
Location == [lat : Int, lon : Int]

----------------------------------------------------------------------------
(* Text, as a sequence of decimal digits and the two characters below.     *)

Minus == -1
Space == -2

Digits[n \in Nat] ==
    IF n < 10 THEN <<n>> ELSE Append(Digits[n \div 10], n % 10)

to_string(n) == IF n < 0 THEN <<Minus>> \o Digits[-n] ELSE Digits[n]

\* FullMatrixCacheDistanceMatrixEngine: what a matrix finds a location by.
encodeLocation(loc) == to_string(loc.lat) \o to_string(loc.lon)

\* GrpcRouteProviderEngine: what the client finds a location by.
buildLocationKey(loc) == to_string(loc.lat) \o <<Space>> \o to_string(loc.lon)

----------------------------------------------------------------------------
(* RouteDetails: the route a provider found, zero, or infinity.            *)

RouteKind == {"route", "zero", "infinity"}

route(a, b) == [from |-> a, to |-> b, kind |-> "route"]
zero(a, b) == [from |-> a, to |-> b, kind |-> "zero"]
infinity(a, b) == [from |-> a, to |-> b, kind |-> "infinity"]

\* A provider finds the route, or it throws.
Thrown == [kind |-> "thrown"]

\* DistanceMatrixErrorPolicy: what becomes of an error of the provider.
ErrorPolicies == {"ON_ERROR_RETURN_INFINITY", "ON_ERROR_THROW"}

processError(policy, a, b) ==
    IF policy = "ON_ERROR_RETURN_INFINITY" THEN infinity(a, b) ELSE Thrown

=============================================================================
