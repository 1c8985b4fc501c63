------------------------------ MODULE Geohash ------------------------------
(***************************************************************************)
(* The geohash of code/geohash/geohash.go for a point that moves over the  *)
(* globe. Coordinates are integers, from -HalfLat to HalfLat (90 degrees)  *)
(* and from -HalfLng to HalfLng (180), that can be halved as often as they *)
(* are bisected; a character is CharBits (5) bits.                         *)
(***************************************************************************)
EXTENDS Integers, Sequences

CONSTANTS HalfLat, HalfLng, CharBits, MaxPrecision

CanBeHalved(n, times) ==
    LET half[i \in 0 .. times] == IF i = 0 THEN n ELSE half[i - 1] \div 2
    IN  \A i \in 1 .. times : half[i - 1] % 2 = 0

GeoAssumption ==
    /\ HalfLat \in Nat \ {0} /\ HalfLng \in Nat \ {0}
    /\ CharBits \in Nat \ {0} /\ MaxPrecision \in Nat \ {0}
    /\ LET bits == CharBits * MaxPrecision IN
          CanBeHalved(HalfLat, bits \div 2) /\ CanBeHalved(HalfLng, (bits + 1) \div 2)

VARIABLES lat, lng, precision

vars == <<lat, lng, precision>>

World == [minLat |-> -HalfLat, maxLat |-> HalfLat, minLng |-> -HalfLng, maxLng |-> HalfLng]
midLat(box) == (box.minLat + box.maxLat) \div 2
midLng(box) == (box.minLng + box.maxLng) \div 2

\* The box's half in which the bit lies; even bits are the longitude's.
Half(box, even, set) ==
    IF even THEN IF set THEN [box EXCEPT !.minLng = midLng(box)]
                 ELSE [box EXCEPT !.maxLng = midLng(box)]
    ELSE IF set THEN [box EXCEPT !.minLat = midLat(box)]
         ELSE [box EXCEPT !.maxLat = midLat(box)]

\* The first n bits of the point's hash, and the box they stand for.
Bisect(y, x, n) ==
    LET at[i \in 0 .. n] ==
          IF i = 0 THEN [bits |-> <<>>, box |-> World]
          ELSE LET even == i % 2 = 1
                   box == at[i - 1].box
                   set == IF even THEN x >= midLng(box) ELSE y >= midLat(box)
               IN  [bits |-> Append(at[i - 1].bits, set), box |-> Half(box, even, set)]
    IN  at[n]

\* A hash is its bits, a whole number of characters.
Encode(y, x, p) == Bisect(y, x, CharBits * IF p < 1 THEN 1 ELSE p).bits

Decode(hash) ==
    LET at[i \in 0 .. Len(hash)] ==
          IF i = 0 THEN World ELSE Half(at[i - 1], i % 2 = 1, hash[i])
    IN  at[Len(hash)]

clampLat(y) == IF y > HalfLat THEN HalfLat ELSE IF y < -HalfLat THEN -HalfLat ELSE y

\* Mutant: a longitude beyond the antimeridian is clamped like a latitude.
wrapLngClamped(x) == IF x > HalfLng THEN HalfLng ELSE IF x < -HalfLng THEN -HalfLng ELSE x

\* A neighbour is at most once around.
wrapLng(x) == IF x > HalfLng THEN x - 2 * HalfLng ELSE IF x < -HalfLng THEN x + 2 * HalfLng ELSE x

Neighbors(hash) ==
    LET box == Decode(hash)
        latStep == box.maxLat - box.minLat
        lngStep == box.maxLng - box.minLng
    IN  {Encode(clampLat(midLat(box) + d[1] * latStep), wrapLng(midLng(box) + d[2] * lngStep),
                Len(hash) \div CharBits) : d \in ((-1 .. 1) \X (-1 .. 1)) \ {<<0, 0>>}}

SearchArea(y, x, p) == {Encode(y, x, p)} \cup Neighbors(Encode(y, x, p))

-----------------------------------------------------------------------------

Init == lat = 0 /\ lng = 0 /\ precision = 1

Move(y, x) == lat' = y /\ lng' = x /\ UNCHANGED precision

Next ==
    \/ \E d \in -1 .. 1 : Move(clampLat(lat + d), lng)
    \/ \E d \in -1 .. 1 : Move(lat, wrapLng(lng + d))
    \/ \E p \in 1 .. MaxPrecision : precision' = p /\ UNCHANGED <<lat, lng>>

Spec == Init /\ [][Next]_vars

-----------------------------------------------------------------------------

Abs(n) == IF n < 0 THEN -n ELSE n
Around(x, z) == LET d == Abs(x - z) IN IF d > HalfLng THEN 2 * HalfLng - d ELSE d

\* geohash.go:11-13, :134-136: the area searched for a point has every other one that is
\* less than a cell away in both directions, across the antimeridian and up to the
\* poles. The cell contains its point (geohash_test.go:66), and a longer hash lies in the
\* cell of a shorter one (:79).
NearbyIsFound ==
    LET hash == Encode(lat, lng, precision)
        box == Decode(hash)
        area == SearchArea(lat, lng, precision)
    IN  /\ lat \in box.minLat .. box.maxLat /\ lng \in box.minLng .. box.maxLng
        /\ \A p \in 1 .. precision : SubSeq(hash, 1, p * CharBits) = Encode(lat, lng, p)
        /\ \A y \in -HalfLat .. HalfLat, x \in -HalfLng .. HalfLng :
              Abs(lat - y) < box.maxLat - box.minLat /\ Around(lng, x) < box.maxLng - box.minLng
                  => Encode(y, x, precision) \in area
=============================================================================
