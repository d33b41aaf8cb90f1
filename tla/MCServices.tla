------------------------------ MODULE MCServices ------------------------------
(***************************************************************************)
(* The components of Services on small instances, and the conversions of   *)
(* Wire, which are evaluated on all short inputs as assumptions, with the  *)
(* widths scaled down.                                                     *)
(***************************************************************************)
EXTENDS Services, Wire, FiniteSets

\* An instance without a weight, and weights that differ.
MCRegWeight == [a |-> 0, b |-> 2]
MCRouteWeight == [a |-> 1, b |-> 2]

\* Short byte strings, and all numbers up to twice the width of a cell.
Short(n) == UNION {[1..k -> {0, 1}] : k \in 0..n}
SmallMessages ==
  [version : {1, 2}, fixed : {0}, payloadLength : 0..(2 * HalfWord),
   source : Short(2), dest : Short(2), correlation : Short(1),
   session : Short(1), payload : Short(3)]
SmallRequests  == [sequence : {7}, method : Short(2), args : Short(3)]
SmallResponses == [sequence : {7}, method : Short(2), error : Short(1),
                   reply : Short(2)]
Cuts(d) == {SubSeq(d, 1, k) : k \in 0..(Len(d) - 1)}

\* Decode after Encode keeps all but what the two overlapping lengths share,
\* and refuses another version.
ASSUME MessagesDecode ==
  \A m \in SmallMessages :
    Encodable(m) => Decode(Encode(m)) =
                      IF m.version = ProtocolVersion THEN Expected(m) ELSE Error

\* Requests and responses come back as they were, and not at all when cut.
ASSUME CallsDecode ==
  /\ \A r \in SmallRequests :
       /\ UnmarshalRequest(MarshalRequest(r)) = r
       /\ \A d \in Cuts(MarshalRequest(r)) : UnmarshalRequest(d) = Error
  /\ \A r \in SmallResponses :
       /\ UnmarshalResponse(MarshalResponse(r)) = r
       /\ \A d \in Cuts(MarshalResponse(r)) : UnmarshalResponse(d) = Error
=============================================================================
