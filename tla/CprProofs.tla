------------------------------ MODULE CprProofs ------------------------------
(***************************************************************************)
(* Proofs about Cpr, for every number of zones and bins, every table of    *)
(* zone edges and every pair of frames.  A zone is a whole number of bins  *)
(* (LatBins, LonZone); a decoded coordinate is a whole number of zones and *)
(* the field's bins (OnBin), and the encoder finds the same field again    *)
(* there and anywhere within half a bin (SlippedBack).                     *)
(***************************************************************************)
EXTENDS Cpr, FiniteSetTheorems, TLAPS

-----------------------------------------------------------------------------
(* Whole numbers *)

\* The quotient and the remainder, from the number.
LEMMA Quotient ==
    ASSUME NEW d \in Nat \ {0}, NEW q \in Int, NEW r \in 0..(d - 1), NEW x \in Int, x = d * q + r
    PROVE  x \div d = q /\ x % d = r
<1>1. q * d <= x /\ x < q * d + d
  OBVIOUS
<1>2. x \div d = q
  BY <1>1
<1>3. x % d = x - d * (x \div d)
  OBVIOUS
<1> QED
  BY <1>2, <1>3

\* The same, for every whole number of zones and remainder.
LEMMA ZonesAndRest ==
    \A d \in Nat \ {0}, q \in Int : \A r \in 0..(d - 1) :
        (d * q + r) \div d = q /\ (d * q + r) % d = r
<1> SUFFICES ASSUME NEW d \in Nat \ {0}, NEW q \in Int, NEW r \in 0..(d - 1)
             PROVE  (d * q + r) \div d = q /\ (d * q + r) % d = r
  OBVIOUS
<1>1. d * q + r \in Int
  OBVIOUS
<1> QED
  BY <1>1, Quotient

\* Every number is a whole number of zones and a rest.
LEMMA InZones ==
    \A d \in Nat \ {0}, x \in Int :
        x \div d \in Int /\ x % d \in 0..(d - 1) /\ x = d * (x \div d) + (x % d)
  OBVIOUS

\* A coordinate q zones and y bins from the origin is encoded as y, and found again.
LEMMA FieldBack ==
    ASSUME NEW w \in Nat \ {0}, NEW y \in Coords, NEW q \in Int, NEW zone, zone = Bins * w,
           NEW x, x = zone * q + y * w
    PROVE  /\ zone \in Nat \ {0} /\ zone \div Bins = w
           /\ x \in Int /\ x \div zone = q /\ Field(x, zone) = y
<1>0. Bins \in Nat \ {0} /\ y \in Nat /\ y <= Bins - 1
  BY CprAssumption DEF Coords
<1>1. zone \in Nat \ {0}
  BY <1>0
<1>2. y * w \in Nat /\ y * w < zone
  <2>1. y * w <= (Bins - 1) * w
    BY <1>0
  <2>2. (Bins - 1) * w = zone - w
    BY <1>0
  <2> QED
    BY <1>0, <1>1, <2>1, <2>2
<1>3. x \in Int /\ zone * q \in Int
  BY <1>1, <1>2
<1>4. x \div zone = q /\ x % zone = y * w
  <2> DEFINE r == y * w
  <2>1. r \in 0..(zone - 1)
    BY <1>1, <1>2
  <2> HIDE DEF r
  <2>2. (zone * q + r) \div zone = q /\ (zone * q + r) % zone = r
    BY <1>1, <2>1, ZonesAndRest, Zenon
  <2>3. x = zone * q + r
    BY DEF r
  <2>4. x \div zone = q /\ x % zone = r
    BY <2>2, <2>3, Zenon
  <2> QED
    BY <2>4 DEF r
<1>5. zone \div Bins = w
  <2>1. zone = Bins * w + 0 /\ 0 \in 0..(Bins - 1)
    BY <1>0
  <2> QED
    BY <1>0, <1>1, <2>1, Quotient
<1>6. Bin(x, zone) = y
  <2>1. 2 * Bins * (y * w) + zone = (2 * zone) * y + zone
    BY <1>0
  <2>2. /\ 2 * zone \in Nat \ {0} /\ zone \in 0..(2 * zone - 1)
        /\ (2 * zone) * y + zone \in Int
    BY <1>0, <1>1
  <2>3. ((2 * zone) * y + zone) \div (2 * zone) = y
    BY <1>0, <2>2, Quotient
  <2> QED
    BY <1>4, <2>1, <2>3 DEF Bin
<1>7. y % Bins = y
  <2>1. y = Bins * 0 + y /\ y \in 0..(Bins - 1)
    BY <1>0
  <2> QED
    BY <1>0, <2>1, Quotient
<1> QED
  BY <1>1, <1>3, <1>4, <1>5, <1>6, <1>7 DEF Field

\* The same, for every width of a zone, field and number of zones.
LEMMA FieldBackAt ==
    \A w \in Nat \ {0}, y \in Coords, q \in Int :
        LET x == (Bins * w) * q + y * w
        IN  x \in Int /\ x \div (Bins * w) = q /\ Field(x, Bins * w) = y
<1> SUFFICES ASSUME NEW w \in Nat \ {0}, NEW y \in Coords, NEW q \in Int
             PROVE  LET x == (Bins * w) * q + y * w
                    IN  x \in Int /\ x \div (Bins * w) = q /\ Field(x, Bins * w) = y
  OBVIOUS
<1> DEFINE zone == Bins * w
           x == zone * q + y * w
<1>1. zone = Bins * w /\ x = zone * q + y * w
  OBVIOUS
<1> HIDE DEF zone, x
<1>2. x \in Int /\ x \div zone = q /\ Field(x, zone) = y
  BY <1>1, FieldBack
<1> QED
  BY <1>2 DEF zone, x

\* A field fits its bits, whatever the zone.
LEMMA FieldFits ==
    ASSUME NEW x \in Int, NEW zone \in Nat \ {0}
    PROVE  Field(x, zone) \in Coords
<1>0. Bins \in Nat \ {0}
  BY CprAssumption
<1>1. x % zone \in Int
  OBVIOUS
<1>2. 2 * Bins * (x % zone) + zone \in Int /\ 2 * zone \in Nat \ {0}
  BY <1>0, <1>1
<1>3. Bin(x, zone) \in Int
  BY <1>2 DEF Bin
<1> QED
  BY <1>0, <1>3 DEF Field, Coords

-----------------------------------------------------------------------------
(* Zones *)

\* The globe: a pole is a quarter of the way around.
LEMMA Globe ==
    /\ Pole \in Nat /\ LatCircle = 4 * Pole /\ Pole = NZ * NLMax * Bins
    /\ LonCircle \in Nat \ {0}
<1>0. NZ \in Nat \ {0} /\ Bins \in Nat \ {0} /\ LonZones \in Nat \ {0} /\ NLMax \in Nat \ {0}
  BY CprAssumption DEF NLMax
<1> DEFINE p == NZ * NLMax * Bins
<1>1. p \in Nat /\ LatCircle = 4 * p /\ LonCircle \in Nat \ {0}
  BY <1>0 DEF LatCircle, LonCircle
<1> HIDE DEF p
<1>2. Pole = p
  BY <1>1 DEF Pole
<1> QED
  BY <1>1, <1>2 DEF p

\* The bins of a format, in units of latitude.
BinLat(odd) == IF odd THEN 4 * NZ ELSE NLMax

\* A latitude zone is a whole number of bins, and the zones of a format fill the circle.
LEMMA LatBins ==
    ASSUME NEW odd \in BOOLEAN
    PROVE  /\ BinLat(odd) \in Nat \ {0}
           /\ Dlat(odd) = Bins * BinLat(odd)
           /\ 4 * NZ - Parity(odd) \in Nat \ {0}
           /\ LatCircle = Dlat(odd) * (4 * NZ - Parity(odd))
<1>0. Bins \in Nat \ {0} /\ NZ \in Nat \ {0} /\ NLMax \in Nat \ {0} /\ NLMax = 4 * NZ - 1
  BY CprAssumption DEF NLMax
<1>1. ASSUME NEW n \in Nat \ {0}, NEW m \in Nat \ {0}, LatCircle = n * (Bins * m)
      PROVE  LatCircle \div n = Bins * m
  <2> DEFINE z == Bins * m
  <2>1. z \in Int /\ 0 \in 0..(n - 1) /\ LatCircle = n * z + 0 /\ LatCircle \in Int
    BY <1>0, <1>1
  <2> HIDE DEF z
  <2>2. LatCircle \div n = z
    BY <2>1, Quotient
  <2> QED
    BY <2>2 DEF z
<1>2. CASE odd
  <2>1. Parity(odd) = 1 /\ 4 * NZ \in Nat \ {0} /\ BinLat(odd) = 4 * NZ
    BY <1>0, <1>2 DEF Parity, BinLat
  <2>2. LatCircle = NLMax * (Bins * (4 * NZ))
    BY <1>0 DEF LatCircle
  <2>3. LatCircle \div NLMax = Bins * (4 * NZ)
    BY <1>0, <1>1, <2>1, <2>2
  <2>4. Dlat(odd) = Bins * (4 * NZ)
    BY <1>0, <2>1, <2>3 DEF Dlat
  <2>5. LatCircle = (Bins * (4 * NZ)) * NLMax
    BY <1>0 DEF LatCircle
  <2> QED
    BY <1>0, <2>1, <2>4, <2>5
<1>3. CASE ~odd
  <2>1. Parity(odd) = 0 /\ 4 * NZ \in Nat \ {0} /\ 4 * NZ - 0 = 4 * NZ /\ BinLat(odd) = NLMax
    BY <1>0, <1>3 DEF Parity, BinLat
  <2>2. LatCircle = (4 * NZ) * (Bins * NLMax)
    BY <1>0 DEF LatCircle
  <2>3. LatCircle \div (4 * NZ) = Bins * NLMax
    BY <1>0, <1>1, <2>1, <2>2
  <2>4. Dlat(odd) = Bins * NLMax
    BY <2>1, <2>3 DEF Dlat
  <2>5. LatCircle = (Bins * NLMax) * (4 * NZ)
    BY <1>0 DEF LatCircle
  <2> QED
    BY <1>0, <2>1, <2>4, <2>5
<1> QED
  BY <1>2, <1>3

\* There are between 1 and NLMax longitude zones at any latitude.
LEMMA ZonesCounted ==
    ASSUME NEW lat, NEW odd \in BOOLEAN
    PROVE  nl(lat) \in 1..NLMax /\ Nlon(lat, odd) \in 1..NLMax
<1>0. NZ \in Nat \ {0} /\ NLMax \in Nat \ {0}
  BY CprAssumption DEF NLMax
<1> DEFINE S == {n \in 1..NLMax : n = 1 \/ Abs(lat) < Edge[n]}
<1>1. nl(lat) = Cardinality(S)
  BY DEF nl
<1>2. 1 \in S /\ S \subseteq 1..NLMax
  BY <1>0
<1> HIDE DEF S
<1>3. IsFiniteSet(1..NLMax) /\ Cardinality(1..NLMax) = NLMax
  BY <1>0, FS_Interval
<1>4. IsFiniteSet(S) /\ Cardinality(S) <= NLMax /\ Cardinality(S) \in Nat
  BY <1>2, <1>3, FS_Subset, FS_CardinalityType
<1>5. Cardinality(S) # 0
  BY <1>2, <1>4, FS_EmptySet
<1>6. nl(lat) \in 1..NLMax
  BY <1>0, <1>1, <1>4, <1>5
<1>7. Nlon(lat, odd) \in 1..NLMax
  <2> DEFINE k == nl(lat) - Parity(odd)
  <2>1. k \in 0..NLMax
    BY <1>0, <1>6 DEF Parity
  <2>2. Nlon(lat, odd) = Max({1, k})
    BY DEF Nlon
  <2> HIDE DEF k
  <2>3. Max({1, k}) \in {1, k} /\ \A y \in {1, k} : Max({1, k}) >= y
    <3>1. \E x \in {1, k} : \A y \in {1, k} : x >= y
      <4>1. CASE k <= 1
        BY <1>0, <2>1, <4>1
      <4>2. CASE k >= 1
        BY <1>0, <2>1, <4>2
      <4> QED
        BY <1>0, <2>1, <4>1, <4>2
    <3> QED
      BY <3>1 DEF Max
  <2> QED
    BY <1>0, <2>1, <2>2, <2>3
<1> QED
  BY <1>6, <1>7

\* A longitude zone is a whole number of bins, and the zones fill the circle.
LEMMA LonZone ==
    ASSUME NEW lat, NEW odd \in BOOLEAN
    PROVE  \E w \in Nat \ {0} :
              /\ Dlon(lat, odd) = Bins * w
              /\ Nlon(lat, odd) \in Nat \ {0}
              /\ LonCircle = Dlon(lat, odd) * Nlon(lat, odd)
              /\ LonZones = Nlon(lat, odd) * w
<1>0. Bins \in Nat \ {0} /\ NLMax \in Nat \ {0} /\ LonZones \in Nat \ {0}
  BY CprAssumption DEF NLMax
<1> DEFINE n == Nlon(lat, odd)
           w == LonZones \div n
<1>1. n \in 1..NLMax
  BY ZonesCounted
<1>2. Dlon(lat, odd) = LonCircle \div n
  BY DEF Dlon
<1> HIDE DEF n
<1>3. n \in Nat \ {0} /\ LonZones % n = 0
  <2>1. \A k \in 1..NLMax : LonZones % k = 0
    BY CprAssumption
  <2> QED
    BY <1>0, <1>1, <2>1
<1>4. w \in Int /\ LonZones = n * w
  BY <1>0, <1>3
<1> HIDE DEF w
<1>5. w \in Nat \ {0}
  BY <1>0, <1>3, <1>4
<1>6. LonCircle = n * (Bins * w) /\ LonCircle = (Bins * w) * n
  BY <1>0, <1>3, <1>4, <1>5 DEF LonCircle
<1>7. LonCircle \div n = Bins * w
  <2> DEFINE z == Bins * w
  <2>1. z \in Int /\ 0 \in 0..(n - 1) /\ LonCircle = n * z + 0 /\ LonCircle \in Int
    BY <1>0, <1>3, <1>5, <1>6
  <2> HIDE DEF z
  <2>2. LonCircle \div n = z
    BY <1>3, <2>1, Quotient
  <2> QED
    BY <2>2 DEF z
<1> QED
  BY <1>2, <1>3, <1>4, <1>5, <1>6, <1>7 DEF n

\* The bins of a zone.
LEMMA BinsOfZone == \A w \in Nat \ {0} : (Bins * w) \div Bins = w
<1> SUFFICES ASSUME NEW w \in Nat \ {0} PROVE (Bins * w) \div Bins = w
  OBVIOUS
<1>1. Bins \in Nat \ {0} /\ Bins * w \in Int /\ Bins * w = Bins * w + 0 /\ 0 \in 0..(Bins - 1)
  BY CprAssumption
<1> QED
  BY <1>1, Quotient

\* A zone index is a whole number.
LEMMA IndexType ==
    \A zones \in Nat \ {0}, e \in Coords, o \in Coords : ZoneIndex(e, o, zones) \in Int
<1> SUFFICES ASSUME NEW zones \in Nat \ {0}, NEW e \in Coords, NEW o \in Coords
             PROVE  ZoneIndex(e, o, zones) \in Int
  OBVIOUS
<1>1. Bins \in Nat \ {0} /\ e \in Int /\ o \in Int
  BY CprAssumption DEF Coords
<1>2. 2 * (e * (zones - 1) - o * zones) + Bins \in Int /\ 2 * Bins \in Nat \ {0}
  BY <1>1
<1> QED
  BY <1>2 DEF ZoneIndex

\* What the encoder makes of any position fits its bits.
LEMMA FramesFit ==
    ASSUME NEW p \in Int \X Int, NEW odd \in BOOLEAN
    PROVE  encode_airborne(p, odd) \in Frames
<1>0. Bins \in Nat \ {0} /\ p[1] \in Int /\ p[2] \in Int
  BY CprAssumption
<1>1. Dlat(odd) \in Nat \ {0}
  BY <1>0, LatBins
<1>2. \A lat : Dlon(lat, odd) \in Nat \ {0}
  BY <1>0, LonZone
<1>3. Field(p[1], Dlat(odd)) \in Coords
  BY <1>0, <1>1, FieldFits
<1>4. Field(p[2], Dlon(Rlat(p[1], odd), odd)) \in Coords
  BY <1>0, <1>2, FieldFits
<1> QED
  BY <1>3, <1>4 DEF encode_airborne, Frames

-----------------------------------------------------------------------------
(* Decoding and encoding again *)

Frame(even, odd, recent_odd) == IF recent_odd THEN odd ELSE even

\* A coordinate is a whole number of zones and y bins from the origin.
OnBin(x, zone, y) == \E k \in Int : x = zone * k + y * (zone \div Bins)

\* A decoded latitude is encoded as the field it was decoded from, and the encoder
\* looks up the longitude zones exactly there.
LEMMA LatBack ==
    ASSUME NEW even \in Frames, NEW odd \in Frames, NEW q \in BOOLEAN
    PROVE  LET lat == DecodedLat(even, odd, q)
           IN  /\ lat \in Int
               /\ Field(lat, Dlat(q)) = Frame(even, odd, q)[1]
               /\ Rlat(lat, q) = lat
               /\ OnBin(lat, Dlat(q), Frame(even, odd, q)[1])
<1> DEFINE lat == DecodedLat(even, odd, q)
           zones == 4 * NZ - Parity(q)
           zone == Dlat(q)
           y == Frame(even, odd, q)[1]
           j == ZoneIndex(even[1], odd[1], 4 * NZ)
<1>0. /\ Bins \in Nat \ {0} /\ NZ \in Nat \ {0}
      /\ even[1] \in Coords /\ odd[1] \in Coords /\ y \in Coords
      /\ even[1] \in Int /\ odd[1] \in Int
  BY CprAssumption DEF Frames, Frame, Coords
<1>1. PICK w \in Nat \ {0} : zone = Bins * w /\ zones \in Nat \ {0} /\ LatCircle = zone * zones
  BY LatBins
<1>2. j \in Int
  <2>1. 2 * (even[1] * (4 * NZ - 1) - odd[1] * (4 * NZ)) + Bins \in Int /\ 2 * Bins \in Nat \ {0}
    BY <1>0
  <2> QED
    BY <2>1 DEF ZoneIndex
<1>3. lat = LET rlat == zone * (j % zones) + y * (zone \div Bins)
            IN  IF rlat >= 3 * Pole THEN rlat - LatCircle ELSE rlat
  BY DEF DecodedLat, Frame
<1> HIDE DEF lat, zones, zone, y, j
<1>4. j % zones \in Int /\ zone \in Nat \ {0} /\ y \in Int
  BY <1>0, <1>1, <1>2 DEF Coords
<1>5. zone \div Bins = w
  <2>1. zone = zone * 0 + zone /\ zone * 0 + 0 * w = 0 /\ 0 \in Coords /\ 0 = zone * 0 + 0 * w
    BY <1>0, <1>1, <1>4 DEF Coords
  <2> QED
    BY <1>1, <2>1, FieldBack
<1> DEFINE rlat == zone * (j % zones) + y * w
<1>6. PICK k \in Int : lat = zone * k + y * w
  <2>1. CASE lat = rlat
    BY <1>4, <2>1, Zenon
  <2>2. CASE lat = rlat - LatCircle
    <3>1. zone * (j % zones) - zone * zones = zone * ((j % zones) - zones)
      BY <1>1, <1>4
    <3>2. (j % zones) - zones \in Int
      BY <1>1, <1>4
    <3>3. lat = zone * ((j % zones) - zones) + y * w
      BY <1>1, <1>4, <2>2, <3>1
    <3> QED
      BY <3>2, <3>3
  <2>3. lat = IF rlat >= 3 * Pole THEN rlat - LatCircle ELSE rlat
    BY <1>3, <1>5
  <2>4. lat = rlat \/ lat = rlat - LatCircle
    <3> HIDE DEF rlat
    <3> QED
      BY <2>3
  <2> HIDE DEF rlat
  <2> QED
    BY <2>1, <2>2, <2>4
<1>7. lat \in Int /\ lat \div zone = k /\ Field(lat, zone) = y
  BY <1>0, <1>1, <1>6, FieldBackAt, Zenon
<1>8. Rlat(lat, q) = y * w + zone * k
  BY <1>5, <1>7 DEF Rlat, zone
<1>9. y * w + zone * k = zone * k + y * w
  BY <1>1, <1>4
<1>10. OnBin(lat, zone, y)
  BY <1>5, <1>6 DEF OnBin
<1> QED
  BY <1>6, <1>7, <1>8, <1>9, <1>10 DEF lat, zone, y

\* A decoded longitude lies between -180 and 180 degrees, on a bin of its field.
LEMMA LonBack ==
    ASSUME NEW even \in Frames, NEW odd \in Frames, NEW q \in BOOLEAN, NEW lat
    PROVE  LET lon == DecodedLon(even, odd, q, lat)
           IN  /\ 2 * lon \in (-LonCircle)..(LonCircle - 1)
               /\ OnBin(lon, Dlon(lat, q), Frame(even, odd, q)[2])
<1> DEFINE lon == DecodedLon(even, odd, q, lat)
           zones == Nlon(lat, q)
           zone == Dlon(lat, q)
           x == Frame(even, odd, q)[2]
           j == ZoneIndex(even[2], odd[2], nl(lat))
<1>0. /\ Bins \in Nat \ {0} /\ nl(lat) \in Nat
      /\ even[2] \in Coords /\ odd[2] \in Coords /\ x \in Coords
      /\ even[2] \in Int /\ odd[2] \in Int
  <2>1. nl(lat) \in 1..NLMax
    BY ZonesCounted
  <2>2. nl(lat) \in Nat
    BY <2>1, CprAssumption DEF NLMax
  <2>3. even[2] \in Coords /\ odd[2] \in Coords /\ x \in Coords
    BY DEF Frames, Frame
  <2> QED
    BY <2>2, <2>3, CprAssumption DEF Coords
<1>1. PICK w \in Nat \ {0} : zone = Bins * w /\ zones \in Nat \ {0} /\ LonCircle = zone * zones
  BY LonZone
<1>2. j \in Int
  <2>1. 2 * (even[2] * (nl(lat) - 1) - odd[2] * nl(lat)) + Bins \in Int /\ 2 * Bins \in Nat \ {0}
    BY <1>0
  <2> QED
    BY <2>1 DEF ZoneIndex
<1>3. lon = LET l == zone * (j % zones) + x * (zone \div Bins)
            IN  IF 2 * l >= LonCircle THEN l - LonCircle ELSE l
  BY DEF DecodedLon, Frame
<1> HIDE DEF lon, zones, zone, x, j
<1>4. j % zones \in 0..(zones - 1) /\ zone \in Nat \ {0} /\ x \in Nat /\ x <= Bins - 1
  BY <1>0, <1>1, <1>2 DEF Coords
<1>5. zone \div Bins = w
  <2>1. zone * 0 + 0 * w = 0 /\ 0 \in Coords /\ 0 = zone * 0 + 0 * w
    BY <1>0, <1>1, <1>4 DEF Coords
  <2> QED
    BY <1>1, <2>1, FieldBack
<1> DEFINE l == zone * (j % zones) + x * w
<1>6. l \in Int /\ 0 <= l /\ l < LonCircle /\ LonCircle \in Nat
  <2>1. x * w \in Nat /\ x * w < zone
    <3>1. x * w <= (Bins - 1) * w /\ (Bins - 1) * w = zone - w
      BY <1>0, <1>1, <1>4
    <3> QED
      BY <1>1, <1>4, <3>1
  <2>2. /\ zone * (j % zones) \in Nat
        /\ zone * (j % zones) <= zone * (zones - 1) /\ zone * (zones - 1) = LonCircle - zone
    BY <1>1, <1>4
  <2> QED
    BY <1>1, <1>4, <2>1, <2>2
<1>7. lon = IF 2 * l >= LonCircle THEN l - LonCircle ELSE l
  BY <1>3, <1>5
<1>8. 2 * lon \in (-LonCircle)..(LonCircle - 1)
  <2> HIDE DEF l
  <2> QED
    BY <1>6, <1>7
<1>9. PICK k \in Int : lon = zone * k + x * w
  <2>1. CASE lon = l
    <3>1. j % zones \in Int
      BY <1>4
    <3> QED
      BY <2>1, <3>1, Zenon
  <2>2. CASE lon = l - LonCircle
    <3>1. zone * (j % zones) - zone * zones = zone * ((j % zones) - zones)
      BY <1>1, <1>4
    <3>2. (j % zones) - zones \in Int
      BY <1>1, <1>4
    <3>3. lon = zone * ((j % zones) - zones) + x * w
      BY <1>1, <1>4, <2>2, <3>1
    <3> QED
      BY <3>2, <3>3
  <2> QED
    BY <1>7, <2>1, <2>2
<1>10. OnBin(lon, zone, x)
  BY <1>5, <1>9 DEF OnBin
<1> QED
  BY <1>8, <1>10 DEF lon, zone, x

\* What is decoded from any two frames is a position on the globe, in either coordinate
\* on a bin of the field of the frame it was decoded for.
LEMMA DecodedBack ==
    ASSUME NEW even \in Frames, NEW odd \in Frames, NEW q \in BOOLEAN,
           NEW p \in global_decode_airborne(even, odd, q)
    PROVE  /\ Abs(p[1]) <= Pole /\ 2 * p[2] \in (-LonCircle)..(LonCircle - 1)
           /\ p[1] \in Int
           /\ OnBin(p[1], Dlat(q), Frame(even, odd, q)[1])
           /\ OnBin(p[2], Dlon(p[1], q), Frame(even, odd, q)[2])
<1> DEFINE lat == DecodedLat(even, odd, q)
           lon == DecodedLon(even, odd, q, lat)
<1>1. p = <<lat, lon>> /\ ~PastPole({DecodedLat(even, odd, r) : r \in BOOLEAN})
  BY DEF global_decode_airborne
<1>2. p[1] = lat /\ p[2] = lon
  BY <1>1
<1>3. lat \in Int /\ OnBin(lat, Dlat(q), Frame(even, odd, q)[1])
  BY LatBack
<1>4. /\ 2 * lon \in (-LonCircle)..(LonCircle - 1)
      /\ OnBin(lon, Dlon(lat, q), Frame(even, odd, q)[2])
  BY LonBack
<1>5. ~(Abs(lat) > Pole)
  BY <1>1 DEF PastPole
<1> HIDE DEF lat, lon
<1>6. Abs(lat) <= Pole
  <2>1. Abs(lat) \in Int
    BY <1>3 DEF Abs
  <2>2. Pole \in Int
    BY Globe
  <2> QED
    BY <1>5, <2>1, <2>2
<1> QED
  BY <1>2, <1>3, <1>4, <1>6

-----------------------------------------------------------------------------
(* Where a frame was sent *)

\* The zone in which a coordinate lies once it is rounded to a bin, and the bin itself.
ZoneOf(a, zone) == (a \div zone) + (IF Bin(a, zone) = Bins THEN 1 ELSE 0)
Rounded(a, zone, w) == zone * ZoneOf(a, zone) + Field(a, zone) * w

\* Rounding to a bin moves a coordinate by no more than half a bin.
LEMMA RoundedNear ==
    ASSUME NEW w \in Nat \ {0}, NEW zone, zone = Bins * w, NEW a \in Int
    PROVE  /\ ZoneOf(a, zone) \in Int /\ Field(a, zone) \in Coords /\ Rounded(a, zone, w) \in Int
           /\ -w <= 2 * (a - Rounded(a, zone, w)) /\ 2 * (a - Rounded(a, zone, w)) < w
<1>0. Bins \in Nat \ {0} /\ zone \in Nat \ {0}
  BY CprAssumption
<1> DEFINE q == a \div zone
           r == a % zone
           b == Bin(a, zone)
<1>1. q \in Int /\ r \in 0..(zone - 1) /\ a = zone * q + r
  BY <1>0, InZones, Zenon
<1>2. b = (2 * Bins * r + zone) \div (2 * zone)
  BY DEF Bin
<1>3. ZoneOf(a, zone) = q + (IF b = Bins THEN 1 ELSE 0) /\ Field(a, zone) = b % Bins
  BY DEF ZoneOf, Field
<1> HIDE DEF q, r, b
<1>4. b \in Int /\ (2 * zone) * b <= 2 * Bins * r + zone
      /\ 2 * Bins * r + zone < (2 * zone) * b + 2 * zone
  <2> DEFINE x == 2 * Bins * r + zone
             d == 2 * zone
  <2>1. x \in Int /\ d \in Nat \ {0} /\ b = x \div d
    BY <1>0, <1>1, <1>2
  <2> HIDE DEF x, d
  <2>2. b \in Int /\ d * b <= x /\ x < d * b + d
    BY <2>1
  <2> QED
    BY <2>2 DEF x, d
<1>5. 2 * (w * b) <= 2 * r + w /\ 2 * r + w < 2 * (w * b) + 2 * w
  <2> DEFINE u == w * b
  <2>1. u \in Int /\ (2 * zone) * b = Bins * (2 * u) /\ 2 * Bins * r + zone = Bins * (2 * r + w)
        /\ (2 * zone) * b + 2 * zone = Bins * (2 * u + 2 * w)
    BY <1>0, <1>1, <1>4
  <2> HIDE DEF u
  <2>2. Bins * (2 * u) <= Bins * (2 * r + w) /\ Bins * (2 * r + w) < Bins * (2 * u + 2 * w)
    BY <1>4, <2>1
  <2>3. 2 * u <= 2 * r + w /\ 2 * r + w < 2 * u + 2 * w
    BY <1>0, <1>1, <2>1, <2>2
  <2> QED
    BY <2>3 DEF u
<1>6. b \in 0..Bins
  <2>1. b >= 0
    <3>1. w * (2 * b + 2) > 0
      BY <1>1, <1>4, <1>5
    <3> QED
      BY <1>4, <3>1
  <2>2. b <= Bins
    <3>1. w * (2 * b) < w * (2 * Bins + 1)
      BY <1>0, <1>1, <1>4, <1>5
    <3>2. 2 * b < 2 * Bins + 1
      BY <1>0, <1>4, <3>1
    <3> QED
      BY <1>0, <1>4, <3>2
  <2> QED
    BY <1>0, <1>4, <2>1, <2>2
<1>7. Rounded(a, zone, w) = zone * q + w * b /\ ZoneOf(a, zone) \in Int /\ Field(a, zone) \in Coords
  <2>1. CASE b = Bins
    <3>1. b % Bins = 0
      BY <1>0, <2>1
    <3>2. ZoneOf(a, zone) = q + 1 /\ Field(a, zone) = 0
      BY <1>3, <2>1, <3>1
    <3>3. zone * (q + 1) + 0 * w = zone * q + w * b
      BY <1>0, <1>1, <2>1
    <3>4. Rounded(a, zone, w) = zone * q + w * b
      BY <3>2, <3>3, Zenon DEF Rounded
    <3>5. q + 1 \in Int /\ 0 \in 0..(Bins - 1)
      BY <1>0, <1>1
    <3> QED
      BY <3>2, <3>4, <3>5, Zenon DEF Coords
  <2>2. CASE b # Bins
    <3>1. b = Bins * 0 + b /\ b \in 0..(Bins - 1)
      BY <1>0, <1>6, <2>2
    <3>2. b % Bins = b
      BY <1>0, <3>1, Quotient
    <3>3. ZoneOf(a, zone) = q /\ Field(a, zone) = b
      BY <1>1, <1>3, <2>2, <3>2
    <3>4. b * w = w * b
      BY <1>4
    <3>5. Rounded(a, zone, w) = zone * q + w * b
      BY <3>3, <3>4, Zenon DEF Rounded
    <3> QED
      BY <1>1, <3>1, <3>3, <3>5, Zenon DEF Coords
  <2> QED
    BY <2>1, <2>2
<1> DEFINE z == zone * q
           u == w * b
<1>8. z \in Int /\ u \in Int /\ a = z + r /\ 2 * u <= 2 * r + w /\ 2 * r + w < 2 * u + 2 * w
      /\ Rounded(a, zone, w) = z + u
  BY <1>0, <1>1, <1>4, <1>5, <1>7
<1> HIDE DEF z, u
<1> QED
  BY <1>1, <1>7, <1>8

\* The same, for every bin and coordinate.
LEMMA RoundedNearAt ==
    \A w \in Nat \ {0}, a \in Int :
        /\ ZoneOf(a, Bins * w) \in Int /\ Field(a, Bins * w) \in Coords
        /\ Rounded(a, Bins * w, w) \in Int
        /\ -w <= 2 * (a - Rounded(a, Bins * w, w)) /\ 2 * (a - Rounded(a, Bins * w, w)) < w
<1> SUFFICES ASSUME NEW w \in Nat \ {0}, NEW a \in Int
             PROVE  /\ ZoneOf(a, Bins * w) \in Int /\ Field(a, Bins * w) \in Coords
                    /\ Rounded(a, Bins * w, w) \in Int
                    /\ -w <= 2 * (a - Rounded(a, Bins * w, w))
                    /\ 2 * (a - Rounded(a, Bins * w, w)) < w
  OBVIOUS
<1> DEFINE zone == Bins * w
<1>1. zone = Bins * w
  OBVIOUS
<1> HIDE DEF zone
<1>2. /\ ZoneOf(a, zone) \in Int /\ Field(a, zone) \in Coords /\ Rounded(a, zone, w) \in Int
      /\ -w <= 2 * (a - Rounded(a, zone, w)) /\ 2 * (a - Rounded(a, zone, w)) < w
  BY <1>1, RoundedNear
<1> QED
  BY <1>2 DEF zone

\* The rounded coordinates of two frames, less than half an index apart, have fields
\* from which ZoneIndex tells both zones: it is the even frame's modulo zones and the
\* odd frame's modulo zones - 1, however often the flight goes around the circle.
LEMMA IndexRight ==
    ASSUME NEW n \in Nat \ {0, 1}, NEW units \in Nat \ {0},
           NEW we \in Nat \ {0}, NEW wo \in Nat \ {0}, units = n * we, units = (n - 1) * wo,
           NEW a \in Int, NEW b \in Int, NEW d \in Int, NEW c \in Int,
           a - b = d + (units * Bins) * c,
           Bears(n, units, d), Bears(n, units, -d)
    PROVE  LET ka == ZoneOf(a, Bins * we)
               kb == ZoneOf(b, Bins * wo)
           IN  ZoneIndex(Field(a, Bins * we), Field(b, Bins * wo), n)
                   = n * kb - (n - 1) * ka + (n * (n - 1)) * c
<1> DEFINE ka == ZoneOf(a, Bins * we)
           kb == ZoneOf(b, Bins * wo)
           ya == Field(a, Bins * we)
           yb == Field(b, Bins * wo)
           ra == a - Rounded(a, Bins * we, we)
           rb == b - Rounded(b, Bins * wo, wo)
           k == n * (n - 1)
           J == n * kb - (n - 1) * ka + k * c
           T == ya * (n - 1) - yb * n - Bins * J
<1>0. Bins \in Nat \ {0} /\ n \in Nat /\ n - 1 \in Nat \ {0} /\ k \in Nat
  BY CprAssumption
<1>1. /\ ka \in Int /\ kb \in Int /\ ya \in Coords /\ yb \in Coords /\ ra \in Int /\ rb \in Int
      /\ -we <= 2 * ra /\ 2 * ra < we /\ -wo <= 2 * rb /\ 2 * rb < wo
  <2>1. /\ ka \in Int /\ ya \in Coords /\ Rounded(a, Bins * we, we) \in Int
        /\ -we <= 2 * ra /\ 2 * ra < we
    BY RoundedNearAt, Zenon
  <2>2. /\ kb \in Int /\ yb \in Coords /\ Rounded(b, Bins * wo, wo) \in Int
        /\ -wo <= 2 * rb /\ 2 * rb < wo
    BY RoundedNearAt, Zenon
  <2>3. ra \in Int /\ rb \in Int
    BY <2>1, <2>2
  <2> QED
    BY <2>1, <2>2, <2>3
<1>2. ya \in Int /\ yb \in Int
  BY <1>0, <1>1 DEF Coords
<1>3. a = (Bins * we) * ka + ya * we + ra /\ b = (Bins * wo) * kb + yb * wo + rb
  <2>1. a - ra = (Bins * we) * ka + ya * we /\ b - rb = (Bins * wo) * kb + yb * wo
    <3>1. Rounded(a, Bins * we, we) \in Int /\ Rounded(b, Bins * wo, wo) \in Int
      BY RoundedNearAt, Zenon
    <3> QED
      BY <3>1 DEF Rounded
  <2> HIDE DEF ka, kb, ya, yb, ra, rb
  <2> QED
    BY <1>0, <1>1, <1>2, <2>1
<1> HIDE DEF ka, kb, ya, yb, ra, rb
<1>4. J \in Int /\ T \in Int
  BY <1>0, <1>1, <1>2
\* n * (n - 1) times the distance of the bins, once around the circle or not, is
\* units times what ZoneIndex rounds.
<1>5. k * (a - ra) = units * ((n - 1) * (Bins * ka + ya))
  <2>1. k * (a - ra) = k * ((Bins * we) * ka + ya * we)
    BY <1>0, <1>1, <1>2, <1>3
  <2>2. k * ((Bins * we) * ka + ya * we) = (n * we) * ((n - 1) * (Bins * ka + ya))
    BY <1>0, <1>1, <1>2
  <2> QED
    BY <2>1, <2>2
<1>6. k * (b - rb) = units * (n * (Bins * kb + yb))
  <2>1. k * (b - rb) = k * ((Bins * wo) * kb + yb * wo)
    BY <1>0, <1>1, <1>2, <1>3
  <2>2. k * ((Bins * wo) * kb + yb * wo) = ((n - 1) * wo) * (n * (Bins * kb + yb))
    BY <1>0, <1>1, <1>2
  <2> QED
    BY <2>1, <2>2
<1>7. k * (d - ra + rb) = units * T
  <2>1. k * ((units * Bins) * c) = units * (Bins * (k * c))
    BY <1>0
  <2>2. k * (d - ra + rb) = k * (a - ra) - k * (b - rb) - k * ((units * Bins) * c)
    <3> DEFINE cc == (units * Bins) * c
    <3>1. cc \in Int /\ d = a - b - cc
      BY <1>0
    <3> HIDE DEF cc, k
    <3>2. d - ra + rb = (a - ra) - (b - rb) - cc
      BY <1>1, <3>1
    <3>3. k * ((a - ra) - (b - rb) - cc) = k * (a - ra) - k * (b - rb) - k * cc
      BY <1>0, <1>1, <3>1
    <3> QED
      BY <3>2, <3>3 DEF cc
  <2>3. (n - 1) * (Bins * ka + ya) - n * (Bins * kb + yb) - Bins * (k * c) = T
    <3>1. (n - 1) * (Bins * ka + ya) = Bins * ((n - 1) * ka) + ya * (n - 1)
          /\ n * (Bins * kb + yb) = Bins * (n * kb) + yb * n
      BY <1>0, <1>1, <1>2
    <3> DEFINE f == n * kb
               g == (n - 1) * ka
               h == k * c
    <3>2. f \in Int /\ g \in Int /\ h \in Int
      BY <1>0, <1>1
    <3>3. Bins * (f - g + h) = Bins * f - Bins * g + Bins * h
      <4> HIDE DEF f, g, h
      <4> QED
        BY <1>0, <3>2
    <3> DEFINE u == ya * (n - 1)
               v == yb * n
    <3>4. u \in Int /\ v \in Int /\ Bins * f \in Int /\ Bins * g \in Int /\ Bins * h \in Int
      <4> HIDE DEF f, g, h
      <4> QED
        BY <1>0, <1>2, <3>2
    <3>5. T = u - v - Bins * (f - g + h)
      OBVIOUS
    <3> HIDE DEF f, g, h, u, v, T
    <3>6. (Bins * g + u) - (Bins * f + v) - Bins * h = T
      BY <3>3, <3>4, <3>5
    <3> QED
      BY <3>1, <3>6 DEF f, g, h, u, v
  <2> DEFINE P == (n - 1) * (Bins * ka + ya)
             Q == n * (Bins * kb + yb)
             S == Bins * (k * c)
  <2>4. P \in Int /\ Q \in Int /\ S \in Int
    BY <1>0, <1>1, <1>2
  <2>5. k * (d - ra + rb) = units * P - units * Q - units * S
    BY <1>5, <1>6, <2>1, <2>2
  <2>6. P - Q - S = T
    BY <2>3
  <2> HIDE DEF P, Q, S, T, k
  <2>7. units * (P - Q - S) = units * P - units * Q - units * S
    BY <2>4
  <2> QED
    BY <2>5, <2>6, <2>7
<1>8. -Bins < 2 * T /\ 2 * T < Bins
  <2>1. /\ (2 * k) * d + (2 * n - 1) * units <= units * Bins
        /\ -((2 * k) * d) + (2 * n - 1) * units <= units * Bins
    <3>1. 2 * n * (n - 1) * d = (2 * k) * d /\ 2 * n * (n - 1) * (-d) = -((2 * k) * d)
      BY <1>0
    <3> QED
      BY <3>1 DEF Bears
  <2>2. /\ -((n - 1) * units) <= (2 * k) * ra /\ (2 * k) * ra < (n - 1) * units
        /\ -(n * units) <= (2 * k) * rb /\ (2 * k) * rb < n * units
    <3>1. (2 * k) * ra = k * (2 * ra) /\ (2 * k) * rb = k * (2 * rb)
      BY <1>0, <1>1
    <3>2. k * we = (n - 1) * units /\ k * wo = n * units
      BY <1>0
    <3>3. k > 0
      BY <1>0
    <3> HIDE DEF k
    <3>4. k * (-we) <= k * (2 * ra) /\ k * (2 * ra) < k * we
          /\ k * (-wo) <= k * (2 * rb) /\ k * (2 * rb) < k * wo
      BY <1>0, <1>1, <3>3
    <3>5. k * (-we) = -(k * we) /\ k * (-wo) = -(k * wo)
      BY <1>0
    <3> QED
      BY <3>1, <3>2, <3>4, <3>5
  <2>3. (2 * k) * d - (2 * k) * ra + (2 * k) * rb = units * (2 * T)
    <3> HIDE DEF k, T
    <3>1. (2 * k) * d - (2 * k) * ra + (2 * k) * rb = 2 * (k * (d - ra + rb))
      BY <1>0, <1>1
    <3>2. 2 * (units * T) = units * (2 * T)
      BY <1>4
    <3> QED
      BY <1>7, <3>1, <3>2
  <2> DEFINE u == (2 * k) * d
             v == (2 * k) * ra
             x == (2 * k) * rb
             N == n * units
  <2>4. u \in Int /\ v \in Int /\ x \in Int /\ N \in Int /\ (n - 1) * units = N - units
        /\ (2 * n - 1) * units = 2 * N - units
    <3> HIDE DEF k
    <3> QED
      BY <1>0, <1>1
  <2>5. units * Bins \in Int /\ units * (2 * T) \in Int
    <3> HIDE DEF T
    <3> QED
      BY <1>0, <1>4
  <2>6. -(units * Bins) < units * (2 * T) /\ units * (2 * T) < units * Bins
    <3> HIDE DEF u, v, x, N, k, T
    <3>1. u + (2 * N - units) <= units * Bins /\ -u + (2 * N - units) <= units * Bins
      BY <2>1, <2>4 DEF u
    <3>2. -(N - units) <= v /\ v < N - units /\ -N <= x /\ x < N
      BY <2>2, <2>4 DEF v, x, N
    <3>3. u - v + x = units * (2 * T)
      BY <2>3 DEF u, v, x
    <3> QED
      BY <2>4, <2>5, <3>1, <3>2, <3>3
  <2> HIDE DEF T
  <2>7. units * (-Bins) < units * (2 * T)
    BY <1>0, <2>5, <2>6
  <2> QED
    BY <1>0, <1>4, <2>6, <2>7
<1>9. ZoneIndex(ya, yb, n) = J
  <2> DEFINE dd == 2 * Bins
             rr == 2 * T + Bins
             xx == 2 * (ya * (n - 1) - yb * n) + Bins
  <2>1. dd \in Nat \ {0} /\ rr \in 0..(dd - 1)
    <3> HIDE DEF T
    <3> QED
      BY <1>0, <1>4, <1>8
  <2>2. xx \in Int /\ xx = dd * J + rr
    <3> DEFINE uu == ya * (n - 1) - yb * n
               BJ == Bins * J
    <3>1. uu \in Int /\ BJ \in Int /\ T = uu - BJ /\ dd * J = 2 * BJ
      <4>1. uu \in Int
        BY <1>0, <1>2
      <4> HIDE DEF J
      <4> QED
        BY <1>0, <1>4, <4>1
    <3> HIDE DEF uu, BJ, T, J
    <3>2. 2 * uu + Bins = 2 * BJ + (2 * T + Bins)
      BY <1>0, <3>1
    <3> QED
      BY <1>0, <3>1, <3>2 DEF uu
  <2>3. ZoneIndex(ya, yb, n) = xx \div dd
    BY DEF ZoneIndex
  <2> HIDE DEF dd, rr, xx, J
  <2> QED
    BY <1>4, <2>1, <2>2, <2>3, Quotient
<1> QED
  BY <1>9 DEF ka, kb, ya, yb

\* An index that differs from a zone by whole turns gives that zone, turned.
LEMMA Turned ==
    \A zones \in Nat \ {0}, zone \in Nat, k \in Int, h \in Int :
        \E t \in Int : zone * ((k + zones * h) % zones) = zone * k + (zone * zones) * t
<1> SUFFICES ASSUME NEW zones \in Nat \ {0}, NEW zone \in Nat, NEW k \in Int, NEW h \in Int
             PROVE  \E t \in Int :
                       zone * ((k + zones * h) % zones) = zone * k + (zone * zones) * t
  OBVIOUS
<1> DEFINE m == k + zones * h
           r == m % zones
           q == m \div zones
           t == h - q
<1>1. m \in Int
  OBVIOUS
<1>2. q \in Int /\ r \in Int /\ m = zones * q + r
  <2> HIDE DEF m
  <2> QED
    BY <1>1
<1>3. t \in Int
  BY <1>2
<1> HIDE DEF r, q
<1>4. zones * t = zones * h - zones * q
  BY <1>2
<1>5. r = k + zones * t
  BY <1>2, <1>4
<1> HIDE DEF t
<1>6. zone * (k + zones * t) = zone * k + (zone * zones) * t
  BY <1>3
<1>7. zone * ((k + zones * h) % zones) = zone * k + (zone * zones) * t
  BY <1>5, <1>6 DEF r
<1> QED
  BY <1>3, <1>7, Zenon

\* Both frames are decoded to their bins, perhaps turned.
Placed(n, units, we, wo, a, b) ==
    LET m == ZoneIndex(Field(a, Bins * we), Field(b, Bins * wo), n)
    IN  /\ \E t \in Int : (Bins * we) * (m % n) + Field(a, Bins * we) * we
                            = Rounded(a, Bins * we, we) + (units * Bins) * t
        /\ \E t \in Int : (Bins * wo) * (m % (n - 1)) + Field(b, Bins * wo) * wo
                            = Rounded(b, Bins * wo, wo) + (units * Bins) * t

\* The frames of a flight the index bears are.
LEMMA PairPlaced ==
    ASSUME NEW n \in Nat \ {0, 1}, NEW units \in Nat \ {0},
           NEW we \in Nat \ {0}, NEW wo \in Nat \ {0}, units = n * we, units = (n - 1) * wo,
           NEW a \in Int, NEW b \in Int, NEW d \in Int, NEW c \in Int,
           a - b = d + (units * Bins) * c,
           Bears(n, units, d), Bears(n, units, -d)
    PROVE  Placed(n, units, we, wo, a, b)
<1> DEFINE ka == ZoneOf(a, Bins * we)
           kb == ZoneOf(b, Bins * wo)
           ya == Field(a, Bins * we)
           yb == Field(b, Bins * wo)
           m == ZoneIndex(ya, yb, n)
           za == Bins * we
           zb == Bins * wo
           circle == units * Bins
<1>0. Bins \in Nat \ {0} /\ n \in Nat \ {0} /\ n - 1 \in Nat \ {0}
  BY CprAssumption
<1>1. ka \in Int /\ ya \in Coords /\ kb \in Int /\ yb \in Coords
  BY RoundedNearAt, Zenon
<1>2. m = n * kb - (n - 1) * ka + (n * (n - 1)) * c
  BY IndexRight
<1>3. /\ Rounded(a, za, we) = za * ka + ya * we
      /\ Rounded(b, zb, wo) = zb * kb + yb * wo
  BY DEF Rounded
<1>4. /\ za \in Nat /\ zb \in Nat /\ circle \in Nat
      /\ circle = za * n /\ circle = zb * (n - 1)
  BY <1>0
<1>5. ya \in Int /\ yb \in Int
  BY <1>0, <1>1 DEF Coords
<1> HIDE DEF ka, kb, ya, yb, m, za, zb, circle
<1>6. m = ka + n * (kb - ka + (n - 1) * c) /\ m = kb + (n - 1) * (kb - ka + n * c) /\ m \in Int
      /\ kb - ka + (n - 1) * c \in Int /\ kb - ka + n * c \in Int
  BY <1>0, <1>1, <1>2
<1> DEFINE ha == kb - ka + (n - 1) * c
           hb == kb - ka + n * c
<1>a. ha \in Int /\ hb \in Int /\ m \in Int /\ m = ka + n * ha /\ m = kb + (n - 1) * hb
  BY <1>6
<1> HIDE DEF ha, hb
<1>7. PICK t \in Int : za * (m % n) = za * ka + circle * t
  <2>1. \A zone \in Nat, k \in Int, h \in Int :
           \E x \in Int : zone * ((k + n * h) % n) = zone * k + (zone * n) * x
    BY <1>0, Turned, Zenon
  <2>2. \A k \in Int, h \in Int :
           \E x \in Int : za * ((k + n * h) % n) = za * k + (za * n) * x
    BY <1>4, <2>1, Zenon
  <2>3. \E x \in Int : za * ((ka + n * ha) % n) = za * ka + (za * n) * x
    BY <1>1, <1>a, <2>2, Zenon
  <2> QED
    BY <1>4, <1>a, <2>3, Zenon
<1>8. PICK u \in Int : zb * (m % (n - 1)) = zb * kb + circle * u
  <2>1. \A zone \in Nat, k \in Int, h \in Int :
           \E x \in Int : zone * ((k + (n - 1) * h) % (n - 1)) = zone * k + (zone * (n - 1)) * x
    BY <1>0, Turned, Zenon
  <2>2. \A k \in Int, h \in Int :
           \E x \in Int : zb * ((k + (n - 1) * h) % (n - 1)) = zb * k + (zb * (n - 1)) * x
    BY <1>4, <2>1, Zenon
  <2>3. \E x \in Int : zb * ((kb + (n - 1) * hb) % (n - 1)) = zb * kb + (zb * (n - 1)) * x
    BY <1>1, <1>a, <2>2, Zenon
  <2> QED
    BY <1>4, <1>a, <2>3, Zenon
<1>9. za * (m % n) + ya * we = Rounded(a, za, we) + circle * t
  <2> DEFINE p == za * ka
             q == ya * we
             r == circle * t
  <2>1. p \in Int /\ q \in Int /\ r \in Int
    BY <1>1, <1>4, <1>5, <1>7
  <2> HIDE DEF p, q, r
  <2>2. (p + r) + q = (p + q) + r
    BY <2>1
  <2> QED
    BY <1>3, <1>7, <2>2 DEF p, q, r
<1>10. zb * (m % (n - 1)) + yb * wo = Rounded(b, zb, wo) + circle * u
  <2> DEFINE p == zb * kb
             q == yb * wo
             r == circle * u
  <2>1. p \in Int /\ q \in Int /\ r \in Int
    BY <1>1, <1>4, <1>5, <1>8
  <2> HIDE DEF p, q, r
  <2>2. (p + r) + q = (p + q) + r
    BY <2>1
  <2> QED
    BY <1>3, <1>8, <2>2 DEF p, q, r
<1> QED
  BY <1>9, <1>10 DEF Placed, m, ya, yb, za, zb, circle

-----------------------------------------------------------------------------
(* The latitude of a pair *)

\* What the index bears one way it bears the other.
LEMMA BearsBoth ==
    ASSUME NEW n \in Nat \ {0}, NEW units \in Nat, NEW d \in Int, NEW D \in Nat,
           D = d \/ D = -d, Bears(n, units, D)
    PROVE  Bears(n, units, d) /\ Bears(n, units, -d)
<1>0. Bins \in Nat \ {0}
  BY CprAssumption
<1> DEFINE K == 2 * n * (n - 1)
           u == (2 * n - 1) * units
           v == units * Bins
<1>1. K \in Nat /\ u \in Int /\ v \in Int
  BY <1>0
<1>2. /\ Bears(n, units, D) <=> K * D + u <= v
      /\ Bears(n, units, d) <=> K * d + u <= v
      /\ Bears(n, units, -d) <=> K * (-d) + u <= v
  BY DEF Bears
<1> HIDE DEF K, u, v
<1>3. K * D \in Nat /\ K * (-D) = -(K * D) /\ K * (-d) = -(K * d) /\ K * d \in Int
  BY <1>1
<1>4. K * d <= K * D /\ K * (-d) <= K * D
  <2>1. CASE D = d
    BY <1>3, <2>1
  <2>2. CASE D = -d
    <3>1. d = -D
      BY <2>2
    <3> QED
      BY <1>3, <2>2, <3>1
  <2> QED
    BY <2>1, <2>2
<1>5. K * d + u <= v /\ K * (-d) + u <= v
  <2>1. K * D + u <= v /\ K * D \in Int /\ K * (-d) \in Int
    BY <1>1, <1>2, <1>3
  <2> DEFINE x == K * D
             y == K * d
             z == K * (-d)
  <2>2. x \in Int /\ y \in Int /\ z \in Int /\ x + u <= v /\ y <= x /\ z <= x
    BY <1>3, <1>4, <2>1
  <2> HIDE DEF x, y, z
  <2>3. y + u <= v /\ z + u <= v
    BY <1>1, <2>2
  <2> QED
    BY <2>3 DEF y, z
<1> QED
  BY <1>2, <1>5

\* A decoded coordinate lies within one turn, before the hemisphere is chosen.
LEMMA OneTurn ==
    \A w \in Nat \ {0}, zones \in Nat \ {0}, m \in Int, y \in Coords :
        LET x == (Bins * w) * (m % zones) + y * w
        IN  x \in Int /\ 0 <= x /\ x < (Bins * w) * zones
<1> SUFFICES ASSUME NEW w \in Nat \ {0}, NEW zones \in Nat \ {0}, NEW m \in Int, NEW y \in Coords
             PROVE  LET x == (Bins * w) * (m % zones) + y * w
                    IN  x \in Int /\ 0 <= x /\ x < (Bins * w) * zones
  OBVIOUS
<1> DEFINE zone == Bins * w
           r == m % zones
           e == y * w
<1>0. Bins \in Nat \ {0} /\ y \in Nat /\ y <= Bins - 1
  BY CprAssumption DEF Coords
<1>1. r \in Nat /\ r <= zones - 1
  OBVIOUS
<1>2. e \in Nat /\ e < zone /\ zone \in Nat
  <2>1. y * w <= (Bins - 1) * w /\ (Bins - 1) * w = zone - w /\ zone \in Nat
    BY <1>0
  <2> QED
    BY <1>0, <2>1
<1> HIDE DEF zone, r, e
<1>3. zone * r \in Nat /\ zone * r <= zone * (zones - 1) /\ zone * (zones - 1) = zone * zones - zone
      /\ zone * zones \in Nat
  BY <1>1, <1>2
<1> DEFINE p == zone * r
           c == zone * zones
<1>4. p + e \in Int /\ 0 <= p + e /\ p + e < c
  <2>1. p \in Nat /\ c \in Nat /\ p <= c - zone
    BY <1>2, <1>3
  <2> HIDE DEF p, c
  <2> QED
    BY <1>2, <2>1
<1> QED
  BY <1>4 DEF zone, r, e

\* A latitude less than two quarters of the circle away, turned into the circle, comes
\* back when the hemisphere is chosen, unless it lies south of the south pole: it is then
\* put past the north pole.
LEMMA Hemisphere ==
    ASSUME NEW P \in Nat, NEW R \in Int, -(2 * P) < R, R < 2 * P, NEW t \in Int,
           NEW x \in Int, x = R + (4 * P) * t, 0 <= x, x < 4 * P
    PROVE  LET lat == IF x >= 3 * P THEN x - 4 * P ELSE x
           IN  lat = R \/ (lat > P /\ R < -P)
<1>1. (4 * P) * t > -(4 * P) - 2 * P /\ (4 * P) * t < 4 * P + 2 * P
  BY SMTT(30)
<1>2. P * (4 * t) > P * (-6) /\ P * (4 * t) < P * 6 /\ P > 0
  BY <1>1
<1>3. 4 * t > -6 /\ 4 * t < 6
  BY <1>2
<1>4. t = -1 \/ t = 0 \/ t = 1
  BY <1>3
<1>5. CASE t = 0
  BY <1>5
<1>6. CASE t = 1
  BY <1>6
<1>7. CASE t = -1
  BY <1>7
<1> QED
  BY <1>4, <1>5, <1>6, <1>7

\* The bin of an odd frame is the wider, and no bin reaches two poles.
LEMMA BinLatSmall ==
    ASSUME NEW q \in BOOLEAN
    PROVE  BinLat(q) \in Nat \ {0} /\ BinLat(q) <= 4 * NZ /\ 4 * NZ < 2 * Pole /\ NZ \in Nat
<1>0. NZ \in Nat \ {0} /\ Bins \in Nat \ {0} /\ NLMax \in Nat /\ NLMax >= 3 /\ NLMax = 4 * NZ - 1
  BY CprAssumption DEF NLMax
<1>1. BinLat(q) \in Nat \ {0} /\ BinLat(q) <= 4 * NZ
  BY <1>0 DEF BinLat
<1>2. Pole >= 3 * NZ
  <2>1. Pole = NZ * (NLMax * Bins)
    BY <1>0, Globe
  <2>2. NLMax * Bins >= 3 /\ NLMax * Bins \in Nat
    <3>1. NLMax * Bins >= NLMax * 1
      BY <1>0
    <3> QED
      BY <1>0, <3>1
  <2> DEFINE k == NLMax * Bins
  <2> HIDE DEF k
  <2>3. NZ * k >= NZ * 3 /\ k \in Nat
    BY <1>0, <2>2 DEF k
  <2> QED
    BY <1>0, <2>1, <2>3 DEF k
<1> QED
  BY <1>0, <1>1, <1>2, Globe

\* The bin to which a latitude is rounded.
LatBin(a, q) == Rounded(a, Dlat(q), BinLat(q))

\* It is within half a bin of the latitude.
LEMMA LatBinNear ==
    ASSUME NEW q \in BOOLEAN, NEW a \in Int
    PROVE  /\ LatBin(a, q) \in Int
           /\ -BinLat(q) <= 2 * (a - LatBin(a, q)) /\ 2 * (a - LatBin(a, q)) <= BinLat(q)
<1>1. BinLat(q) \in Nat \ {0} /\ Dlat(q) = Bins * BinLat(q)
  BY LatBins
<1>2. /\ LatBin(a, q) \in Int
      /\ -BinLat(q) <= 2 * (a - LatBin(a, q)) /\ 2 * (a - LatBin(a, q)) < BinLat(q)
  BY <1>1, RoundedNear DEF LatBin
<1> QED
  BY <1>1, <1>2

\* A latitude is its bin, or the bin is south of the south pole.
BinOrPast(lat, bin) == lat = bin \/ (lat > Pole /\ bin < -Pole)

\* The latitudes of two frames of a flight the index bears are decoded to their bins,
\* except that a bin south of the south pole is put past the north pole.
LEMMA LatDecoded ==
    ASSUME NEW ae \in -Pole..Pole, NEW ao \in -Pole..Pole,
           Bears(4 * NZ, 4 * NZ * NLMax, Abs(ao - ae)),
           NEW even, NEW odd,
           even[1] = Field(ae, Dlat(FALSE)), odd[1] = Field(ao, Dlat(TRUE)),
           NEW q \in BOOLEAN, NEW a, a = IF q THEN ao ELSE ae
    PROVE  BinOrPast(DecodedLat(even, odd, q), LatBin(a, q))
<1> DEFINE lat == DecodedLat(even, odd, q)
           zones == 4 * NZ - Parity(q)
           y == Field(a, Dlat(q))
           w == BinLat(q)
           m == ZoneIndex(Field(ae, Dlat(FALSE)), Field(ao, Dlat(TRUE)), 4 * NZ)
           x == Dlat(q) * (m % zones) + y * w
<1>0. /\ NZ \in Nat \ {0} /\ Bins \in Nat \ {0} /\ NLMax \in Nat \ {0} /\ Pole \in Nat
      /\ ae \in Int /\ ao \in Int /\ a \in Int /\ -Pole <= a /\ a <= Pole /\ NLMax = 4 * NZ - 1
  BY CprAssumption, Globe DEF NLMax
<1>1. /\ BinLat(FALSE) = NLMax /\ BinLat(TRUE) = 4 * NZ
      /\ Dlat(FALSE) = Bins * NLMax /\ Dlat(TRUE) = Bins * (4 * NZ)
  <2>1. BinLat(FALSE) = NLMax /\ BinLat(TRUE) = 4 * NZ
    BY DEF BinLat
  <2> QED
    BY <2>1, LatBins
<1>2. Dlat(q) = Bins * w /\ w \in Nat \ {0} /\ zones \in Nat \ {0} /\ LatCircle = (Bins * w) * zones
  BY LatBins
<1>3. LatCircle = (4 * NZ * NLMax) * Bins /\ LatCircle = 4 * Pole
  BY <1>0, Globe DEF LatCircle
<1>4. PICK t \in Int : x = LatBin(a, q) + (4 * Pole) * t
  <2> DEFINE n == 4 * NZ
             units == 4 * NZ * NLMax
             d == ae - ao
  <2>1. /\ n \in Nat \ {0, 1} /\ units \in Nat \ {0} /\ n \in Nat \ {0} /\ units \in Nat
        /\ units = n * NLMax /\ units = (n - 1) * n /\ n - 1 = NLMax
    BY <1>0
  <2>2. Bears(n, units, d) /\ Bears(n, units, -d)
    <3> DEFINE D == Abs(ao - ae)
    <3>1. D \in Nat /\ (D = d \/ D = -d) /\ d \in Int
      BY <1>0 DEF Abs
    <3>2. Bears(n, units, D)
      OBVIOUS
    <3> HIDE DEF D, d, n, units
    <3> QED
      BY <2>1, <3>1, <3>2, BearsBoth
  <2>3. d \in Int /\ 0 \in Int /\ ae - ao = d + (units * Bins) * 0
    <3>1. units * Bins \in Int
      BY <1>0, <2>1
    <3> HIDE DEF units
    <3> QED
      BY <1>0, <3>1
  <2> HIDE DEF d, units, n
  <2>4. Placed(n, units, NLMax, n, ae, ao)
    <3>1. NLMax \in Nat \ {0} /\ ae \in Int /\ ao \in Int
      BY <1>0
    <3> HIDE DEF lat, zones, y, w, m, x
    <3> QED
      BY <2>1, <2>2, <2>3, <3>1, PairPlaced, Zenon
  <2>5. units * Bins = 4 * Pole
    BY <1>3 DEF units
  <2>6. CASE q
    <3>1. q = TRUE /\ a = ao /\ zones = n - 1 /\ w = n
      BY <2>6, <1>0, <1>1 DEF Parity, n
    <3>2. x = (Bins * n) * (m % (n - 1)) + Field(ao, Bins * n) * n
      BY <1>1, <3>1 DEF n
    <3>3. LatBin(a, q) = Rounded(ao, Bins * n, n)
      BY <1>1, <3>1 DEF LatBin, n
    <3>4. m = ZoneIndex(Field(ae, Bins * NLMax), Field(ao, Bins * n), n)
      BY <1>1 DEF n
    <3> HIDE DEF x, m
    <3> QED
      BY <2>4, <2>5, <3>2, <3>3, <3>4 DEF Placed
  <2>7. CASE ~q
    <3>1. q = FALSE /\ a = ae /\ zones = n /\ w = NLMax
      <4>1. q = FALSE /\ a = ae /\ w = NLMax
        BY <2>7, <1>1
      <4>2. Parity(q) = 0 /\ 4 * NZ - 0 = 4 * NZ
        BY <1>0, <2>7 DEF Parity
      <4> QED
        BY <4>1, <4>2 DEF n
    <3>2. x = (Bins * NLMax) * (m % n) + Field(ae, Bins * NLMax) * NLMax
      BY <1>1, <3>1
    <3>3. LatBin(a, q) = Rounded(ae, Bins * NLMax, NLMax)
      BY <1>1, <3>1 DEF LatBin
    <3>4. m = ZoneIndex(Field(ae, Bins * NLMax), Field(ao, Bins * n), n)
      BY <1>1 DEF n
    <3> HIDE DEF x, m
    <3> QED
      BY <2>4, <2>5, <3>2, <3>3, <3>4 DEF Placed
  <2> QED
    BY <2>6, <2>7
<1>5. lat = IF x >= 3 * Pole THEN x - LatCircle ELSE x
  <2>1. Dlat(q) \div Bins = w
    BY <1>2, BinsOfZone, Zenon
  <2>2. (IF q THEN odd[1] ELSE even[1]) = y
    BY DEF y
  <2> QED
    BY <2>1, <2>2 DEF DecodedLat
<1>6. x \in Int /\ 0 <= x /\ x < LatCircle
  <2>1. y \in Coords
    BY <1>0, <1>2, RoundedNearAt, Zenon
  <2>2. m \in Int
    <3>1. NLMax \in Nat \ {0} /\ 4 * NZ \in Nat \ {0}
      BY <1>0
    <3>2. Field(ae, Bins * NLMax) \in Coords /\ Field(ao, Bins * (4 * NZ)) \in Coords
      BY <1>0, <3>1, RoundedNearAt, Zenon
    <3>3. Field(ae, Dlat(FALSE)) \in Coords /\ Field(ao, Dlat(TRUE)) \in Coords
      BY <1>1, <3>2, Zenon
    <3> QED
      BY <3>1, <3>3, IndexType, Zenon
  <2> HIDE DEF y, m, w, zones
  <2> QED
    BY <1>2, <2>1, <2>2, OneTurn, Zenon
<1>7. LatBin(a, q) \in Int /\ -(2 * Pole) < LatBin(a, q) /\ LatBin(a, q) < 2 * Pole
    <2>1. /\ LatBin(a, q) \in Int
        /\ -BinLat(q) <= 2 * (a - LatBin(a, q)) /\ 2 * (a - LatBin(a, q)) <= BinLat(q)
    BY <1>0, LatBinNear
  <2>2. BinLat(q) \in Nat /\ BinLat(q) < 2 * Pole
    BY <1>0, BinLatSmall
  <2> QED
    BY <1>0, <2>1, <2>2
<1> HIDE DEF x, lat
<1>8. lat = LatBin(a, q) \/ (lat > Pole /\ LatBin(a, q) < -Pole)
  BY <1>0, <1>3, <1>4, <1>5, <1>6, <1>7, Hemisphere
<1> QED
  BY <1>8 DEF lat, BinOrPast

-----------------------------------------------------------------------------
(* A pair that decodes to nothing *)

\* A distance is the same both ways.
LEMMA AbsInt ==
    \A x, y \in Int : Abs(x - y) \in Nat /\ Abs(x - y) = Abs(y - x)
  BY DEF Abs

\* Latitudes are within the poles, and the flight is as long both ways.
LEMMA FlightIs ==
    ASSUME TypeOK
    PROVE  /\ \A q \in BOOLEAN : at[q][1] \in -Pole..Pole /\ at[q][1] \in Int
           /\ Flight \in Nat
           /\ \A q \in BOOLEAN : Flight = Abs(at[q][1] - at[~q][1])
<1>1. \A q \in BOOLEAN : at[q][1] \in -Pole..Pole
  BY DEF TypeOK, Positions
<1>2. \A x \in -Pole..Pole : x \in Int
  BY Globe
<1>3. \A q \in BOOLEAN : at[q][1] \in Int
  BY <1>1, <1>2, Zenon
<1>4. at[TRUE][1] \in Int /\ at[FALSE][1] \in Int
  BY <1>3, Zenon
<1>5. /\ Flight \in Nat
      /\ Flight = Abs(at[TRUE][1] - at[FALSE][1]) /\ Flight = Abs(at[FALSE][1] - at[TRUE][1])
  BY <1>4, AbsInt, Zenon DEF Flight
<1>6. \A q \in BOOLEAN : Flight = Abs(at[q][1] - at[~q][1])
  BY <1>5, Zenon
<1> QED
  BY <1>1, <1>3, <1>5, <1>6

\* A bin past a pole: both ends of the flight are near the pole.
LEMMA PastNear ==
    ASSUME NEW P \in Nat, NEW z \in Nat, NEW a \in -P..P, NEW b \in -P..P, NEW R \in Int,
           -z <= 2 * (a - R), 2 * (a - R) <= z, Abs(R) > P
    PROVE  \A x \in {a, b} : 2 * (Abs(Abs(x) - P) - Abs(a - b)) <= z
<1>1. 2 * (P - Abs(a)) <= z
  BY DEF Abs
<1>2. Abs(a) \in 0..P /\ Abs(b) \in 0..P /\ Abs(a - b) \in Nat
  BY DEF Abs
<1>3. Abs(a) - Abs(b) <= Abs(a - b)
  BY DEF Abs
<1>4. ASSUME NEW v \in 0..P PROVE Abs(v - P) = P - v
  BY DEF Abs
<1>5. Abs(Abs(a) - P) = P - Abs(a) /\ Abs(Abs(b) - P) = P - Abs(b)
  BY <1>2, <1>4
<1>6. 2 * (Abs(Abs(a) - P) - Abs(a - b)) <= z
  BY <1>1, <1>2, <1>5
<1>7. 2 * (Abs(Abs(b) - P) - Abs(a - b)) <= z
  BY <1>1, <1>2, <1>3, <1>5
<1> QED
  BY <1>6, <1>7

\* An edge between two bins: both ends of the flight are near the edge.
LEMMA BetweenNear ==
    ASSUME NEW z \in Nat, NEW E \in Nat, NEW a \in Int, NEW b \in Int,
           NEW Ra \in Int, NEW Rb \in Int,
           -z <= 2 * (a - Ra), 2 * (a - Ra) <= z, -z <= 2 * (b - Rb), 2 * (b - Rb) <= z,
           Abs(Ra) < E, E <= Abs(Rb)
    PROVE  \A x \in {a, b} : 2 * (Abs(Abs(x) - E) - Abs(a - b)) <= z
<1>1. /\ Abs(a) \in Nat /\ Abs(b) \in Nat /\ Abs(a - b) \in Nat
      /\ Abs(Ra) \in Nat /\ Abs(Rb) \in Nat
  BY DEF Abs
<1>2. Abs(a) - Abs(b) <= Abs(a - b) /\ Abs(b) - Abs(a) <= Abs(a - b)
  BY DEF Abs
<1>3. 2 * (Abs(a) - Abs(Ra)) <= z
  BY DEF Abs
<1>4. 2 * (Abs(Rb) - Abs(b)) <= z
  BY DEF Abs
<1>5. 2 * (Abs(a) - E) <= z /\ 2 * (E - Abs(b)) <= z
  BY <1>1, <1>3, <1>4
<1>6. ASSUME NEW v \in Int PROVE Abs(v) = v \/ Abs(v) = -v
  BY DEF Abs
<1>7. Abs(Abs(a) - E) = Abs(a) - E \/ Abs(Abs(a) - E) = E - Abs(a)
  BY <1>1, <1>6
<1>8. Abs(Abs(b) - E) = Abs(b) - E \/ Abs(Abs(b) - E) = E - Abs(b)
  BY <1>1, <1>6
<1> DEFINE u == Abs(a)
           v == Abs(b)
           f == Abs(a - b)
<1> HIDE DEF u, v, f
<1>9. 2 * (Abs(u - E) - f) <= z
  BY <1>1, <1>2, <1>5, <1>7 DEF u, v, f
<1>10. 2 * (Abs(v - E) - f) <= z
  BY <1>1, <1>2, <1>5, <1>8 DEF u, v, f
<1> QED
  BY <1>9, <1>10 DEF u, v, f

\* Where two latitudes have different numbers of longitude zones, an edge is between them.
LEMMA EdgeBetween ==
    ASSUME NEW x \in Int, NEW y \in Int, nl(x) # nl(y)
    PROVE  \E n \in 2..NLMax : \/ Abs(x) < Edge[n] /\ Edge[n] <= Abs(y)
                               \/ Abs(y) < Edge[n] /\ Edge[n] <= Abs(x)
<1>0. NLMax \in Nat /\ NLMax >= 3
  BY CprAssumption DEF NLMax
<1>1. SUFFICES ASSUME \A n \in 2..NLMax : Abs(x) < Edge[n] <=> Abs(y) < Edge[n]
               PROVE  FALSE
  <2>1. PICK n \in 2..NLMax : ~(Abs(x) < Edge[n] <=> Abs(y) < Edge[n])
    BY <1>1
  <2>2. Edge[n] \in Int /\ Abs(x) \in Int /\ Abs(y) \in Int
    <3>1. Edge \in [2..NLMax -> 1..Pole] /\ Pole \in Nat
      BY CprAssumption, Globe
    <3>2. Edge[n] \in 1..Pole
      BY <3>1
    <3> QED
      BY <3>1, <3>2 DEF Abs
  <2> QED
    BY <2>1, <2>2
<1>2. {n \in 1..NLMax : n = 1 \/ Abs(x) < Edge[n]} = {n \in 1..NLMax : n = 1 \/ Abs(y) < Edge[n]}
  <2>1. ASSUME NEW n \in 1..NLMax
        PROVE  (n = 1 \/ Abs(x) < Edge[n]) <=> (n = 1 \/ Abs(y) < Edge[n])
    <3>1. n = 1 \/ n \in 2..NLMax
      BY <1>0
    <3> QED
      BY <1>1, <3>1
  <2> QED
    BY <2>1, Zenon
<1> QED
  BY <1>2, Zenon DEF nl

\* The edges, and the poles, are latitudes of the northern hemisphere.
LEMMA EdgesAre ==
    \A edge \in {Edge[n] : n \in 2..NLMax} \cup {Pole} : edge \in Nat
<1>1. Edge \in [2..NLMax -> 1..Pole] /\ Pole \in Nat
  BY CprAssumption, Globe
<1>2. \A n \in 2..NLMax : Edge[n] \in Nat
  <2>1. \A n \in 2..NLMax : Edge[n] \in 1..Pole
    BY <1>1
  <2> QED
    BY <1>1, <2>1
<1> QED
  BY <1>1, <1>2

\* Within half a bin of an odd frame, and the flight, is near.
LEMMA NearIs ==
    ASSUME TypeOK, NEW q \in BOOLEAN, NEW edge \in {Edge[n] : n \in 2..NLMax} \cup {Pole},
           2 * (Abs(Abs(at[q][1]) - edge) - Flight) <= 4 * NZ
    PROVE  NearEdge(at[q][1])
<1>0. NZ \in Nat \ {0} /\ Bins \in Nat \ {0} /\ Dlat(TRUE) = Bins * (4 * NZ)
  BY CprAssumption, LatBins DEF BinLat
<1>1. at[q][1] \in Int /\ Flight \in Int
  <2>1. Flight \in Nat /\ at[q][1] \in Int
    BY FlightIs, Zenon
  <2> QED
    BY <2>1
<1> DEFINE x == Abs(Abs(at[q][1]) - edge) - Flight
<1>2. x \in Int
  BY <1>1, EdgesAre DEF Abs
<1>3. 2 * x <= 4 * NZ
  OBVIOUS
<1> HIDE DEF x
<1>4. 2 * Bins * x <= Bins * (4 * NZ)
  <2>1. 2 * Bins * x = Bins * (2 * x)
    BY <1>0, <1>2
  <2>2. Bins * (2 * x) <= Bins * (4 * NZ)
    BY <1>0, <1>2, <1>3
  <2> QED
    BY <2>1, <2>2
<1> QED
  BY <1>0, <1>4 DEF NearEdge, x

\* Where the two frames of a pair were sent, and the latitudes it decodes to.
Sent(even, odd) ==
    /\ even = encode_airborne(at[FALSE], FALSE)
    /\ odd = encode_airborne(at[TRUE], TRUE)
    /\ Bears(4 * NZ, 4 * NZ * NLMax, Flight)

\* The latitudes of both ends of a flight, their bins and what they decode to.
LEMMA SentLats ==
    ASSUME TypeOK, NEW even, NEW odd, Sent(even, odd), NEW q \in BOOLEAN
    PROVE  LET a == at[q][1]
               bin == LatBin(a, q)
               lat == DecodedLat(even, odd, q)
           IN  /\ a \in -Pole..Pole /\ bin \in Int
               /\ -BinLat(q) <= 2 * (a - bin) /\ 2 * (a - bin) <= BinLat(q)
               /\ -(4 * NZ) <= 2 * (a - bin) /\ 2 * (a - bin) <= 4 * NZ
               /\ lat \in Int /\ BinOrPast(lat, bin)
<1>1. \A p \in BOOLEAN : at[p][1] \in -Pole..Pole /\ at[p][1] \in Int
  BY FlightIs, Zenon
<1>2. at[TRUE][1] \in -Pole..Pole /\ at[FALSE][1] \in -Pole..Pole /\ at[q][1] \in -Pole..Pole
  BY <1>1, Zenon
<1>3. /\ even[1] = Field(at[FALSE][1], Dlat(FALSE)) /\ odd[1] = Field(at[TRUE][1], Dlat(TRUE))
      /\ Bears(4 * NZ, 4 * NZ * NLMax, Abs(at[TRUE][1] - at[FALSE][1]))
  BY DEF Sent, encode_airborne, Flight
<1>4. at[q][1] = IF q THEN at[TRUE][1] ELSE at[FALSE][1]
  BY Zenon
<1>5. BinOrPast(DecodedLat(even, odd, q), LatBin(at[q][1], q))
  BY <1>2, <1>3, <1>4, LatDecoded, Zenon
<1>6. at[q][1] \in Int
  BY <1>1, Zenon
<1>11. DecodedLat(even, odd, q) \in Int
  <2>1. \A p \in BOOLEAN : at[p] \in Int \X Int
    BY Globe DEF TypeOK, Positions
  <2>2. even \in Frames /\ odd \in Frames
    BY <2>1, FramesFit, Zenon DEF Sent
  <2> QED
    BY <2>2, LatBack
<1>7. /\ LatBin(at[q][1], q) \in Int
      /\ -BinLat(q) <= 2 * (at[q][1] - LatBin(at[q][1], q))
      /\ 2 * (at[q][1] - LatBin(at[q][1], q)) <= BinLat(q)
  BY <1>6, LatBinNear
<1> DEFINE e == 2 * (at[q][1] - LatBin(at[q][1], q))
<1>8. e \in Int
  BY <1>6, <1>7
<1>9. -BinLat(q) <= e /\ e <= BinLat(q)
  BY <1>7
<1>10. -(4 * NZ) <= e /\ e <= 4 * NZ
  <2> HIDE DEF e
  <2>1. BinLat(q) \in Nat /\ BinLat(q) <= 4 * NZ /\ NZ \in Nat
    BY BinLatSmall
  <2> QED
    BY <1>8, <1>9, <2>1
<1> QED
  BY <1>2, <1>5, <1>7, <1>10, <1>11, Zenon

\* Where no latitude is past a pole, both are the bins their frames were rounded to.
LEMMA BinsDecoded ==
    ASSUME TypeOK, NEW even, NEW odd, Sent(even, odd),
           ~PastPole({DecodedLat(even, odd, r) : r \in BOOLEAN}), NEW q \in BOOLEAN
    PROVE  DecodedLat(even, odd, q) = LatBin(at[q][1], q)
<1> DEFINE lat == DecodedLat(even, odd, q)
           bin == LatBin(at[q][1], q)
<1>1. SUFFICES ASSUME lat # bin PROVE FALSE
  OBVIOUS
<1>2. lat \in Int /\ BinOrPast(lat, bin)
  BY SentLats, Zenon
<1>3. lat > Pole /\ lat \in Int
  BY <1>1, <1>2, Zenon DEF BinOrPast
<1>4. ~(Abs(lat) > Pole)
  BY DEF PastPole
<1> HIDE DEF lat
<1> QED
  BY <1>3, <1>4, Globe DEF Abs

\* The pair's latitudes have different numbers of longitude zones.
LEMMA StraddlesIs ==
    ASSUME NEW even, NEW odd
    PROVE  Straddles({DecodedLat(even, odd, q) : q \in BOOLEAN})
             <=> nl(DecodedLat(even, odd, FALSE)) # nl(DecodedLat(even, odd, TRUE))
<1> DEFINE x == nl(DecodedLat(even, odd, FALSE))
           y == nl(DecodedLat(even, odd, TRUE))
           lats == {DecodedLat(even, odd, q) : q \in BOOLEAN}
<1>1. {nl(lat) : lat \in lats} = {x, y}
  <2>1. lats = {DecodedLat(even, odd, FALSE), DecodedLat(even, odd, TRUE)}
    BY Zenon
  <2> QED
    BY <2>1, Zenon
<1>2. Straddles(lats) <=> Cardinality({x, y}) > 1
  BY <1>1 DEF Straddles
<1> HIDE DEF x, y
<1>3. CASE x = y
  <2>1. {x, y} = {x}
    BY <1>3
  <2>2. Cardinality({x}) = 1
    BY FS_Singleton
  <2>3. ~(Cardinality({x, y}) > 1)
    BY <2>1, <2>2
  <2> QED
    BY <1>2, <1>3, <2>3 DEF x, y
<1>4. CASE x # y
  <2>1. IsFiniteSet({x}) /\ Cardinality({x}) = 1
    BY FS_Singleton
  <2>2. Cardinality({x} \cup {y}) = Cardinality({x}) + 1
    BY <1>4, <2>1, FS_AddElement
  <2>3. {x} \cup {y} = {x, y}
    OBVIOUS
  <2>4. Cardinality({x, y}) > 1
    BY <2>1, <2>2, <2>3
  <2> QED
    BY <1>2, <1>4, <2>4 DEF x, y
<1> QED
  BY <1>3, <1>4

\* A pair of a flight the index bears that decodes to nothing was sent beside an edge of
\* the longitude zones or a pole.
LEMMA NothingNear ==
    ASSUME TypeOK, NEW even, NEW odd, Sent(even, odd), NEW q \in BOOLEAN,
           global_decode_airborne(even, odd, q) = {}, NEW p \in BOOLEAN
    PROVE  NearEdge(at[p][1])
<1> DEFINE a(r) == at[r][1]
           bin(r) == LatBin(a(r), r)
           lat(r) == DecodedLat(even, odd, r)
           lats == {DecodedLat(even, odd, r) : r \in BOOLEAN}
<1>0. NZ \in Nat /\ Pole \in Nat /\ 4 * NZ \in Nat
  BY Globe, BinLatSmall
<1>1. \A r \in BOOLEAN : /\ a(r) \in -Pole..Pole /\ bin(r) \in Int
                         /\ -(4 * NZ) <= 2 * (a(r) - bin(r)) /\ 2 * (a(r) - bin(r)) <= 4 * NZ
                         /\ lat(r) \in Int /\ BinOrPast(lat(r), bin(r))
  BY SentLats, Zenon
<1>2. PastPole(lats) \/ Straddles(lats)
  BY DEF global_decode_airborne
<1>3. \A r \in BOOLEAN : Flight = Abs(a(r) - a(~r))
  BY FlightIs, Zenon
<1>4. CASE PastPole(lats)
  <2>1. PICK r \in BOOLEAN : Abs(lat(r)) > Pole
    BY <1>4 DEF PastPole
  <2>2. Abs(bin(r)) > Pole
    <3>1. bin(r) \in Int /\ (lat(r) = bin(r) \/ bin(r) < -Pole)
      BY <1>1, <2>1, Zenon DEF BinOrPast
    <3> HIDE DEF bin, lat
    <3> QED
      BY <1>0, <2>1, <3>1 DEF Abs
  <2> DEFINE b == a(~r)
  <2>3. /\ a(r) \in -Pole..Pole /\ b \in -Pole..Pole /\ bin(r) \in Int
        /\ -(4 * NZ) <= 2 * (a(r) - bin(r)) /\ 2 * (a(r) - bin(r)) <= 4 * NZ
    BY <1>1, <2>1, Zenon
  <2>4. Flight = Abs(a(r) - b)
    BY <1>3, <2>1, Zenon
  <2>5. a(p) \in {a(r), b}
    BY <2>1, Zenon
  <2> HIDE DEF a, b, bin
  <2>6. \A x \in {a(r), b} : 2 * (Abs(Abs(x) - Pole) - Abs(a(r) - b)) <= 4 * NZ
    BY <1>0, <2>2, <2>3, PastNear, Zenon
  <2>7. 2 * (Abs(Abs(a(p)) - Pole) - Flight) <= 4 * NZ
    BY <2>4, <2>5, <2>6, Zenon
  <2>8. Pole \in {Edge[n] : n \in 2..NLMax} \cup {Pole}
    OBVIOUS
  <2> QED
    BY <2>7, <2>8, NearIs DEF a
<1>5. CASE ~PastPole(lats)
  <2>1. \A r \in BOOLEAN : lat(r) = bin(r)
    BY <1>5, BinsDecoded, Zenon
  <2>2. nl(bin(FALSE)) # nl(bin(TRUE))
    <3>1. nl(lat(FALSE)) # nl(lat(TRUE))
      BY <1>2, <1>5, StraddlesIs
    <3> QED
      BY <2>1, <3>1, Zenon
  <2>3. PICK n \in 2..NLMax, r \in BOOLEAN : Abs(bin(r)) < Edge[n] /\ Edge[n] <= Abs(bin(~r))
    <3>1. bin(FALSE) \in Int /\ bin(TRUE) \in Int
      BY <1>1, Zenon
    <3>2. \E n \in 2..NLMax : \/ Abs(bin(FALSE)) < Edge[n] /\ Edge[n] <= Abs(bin(TRUE))
                              \/ Abs(bin(TRUE)) < Edge[n] /\ Edge[n] <= Abs(bin(FALSE))
      BY <2>2, <3>1, EdgeBetween, Zenon
    <3>3. TRUE = ~FALSE /\ FALSE = ~TRUE
      OBVIOUS
    <3> HIDE DEF bin
    <3> QED
      BY <3>2, <3>3, Zenon
  <2> DEFINE E == Edge[n]
             b == a(~r)
             rb == bin(~r)
  <2>4. E \in {Edge[i] : i \in 2..NLMax} \cup {Pole} /\ E \in Nat
    BY <2>3, EdgesAre
  <2>5. /\ a(r) \in Int /\ b \in Int /\ bin(r) \in Int /\ rb \in Int
        /\ -(4 * NZ) <= 2 * (a(r) - bin(r)) /\ 2 * (a(r) - bin(r)) <= 4 * NZ
        /\ -(4 * NZ) <= 2 * (b - rb) /\ 2 * (b - rb) <= 4 * NZ
    BY <1>1, <2>3, FlightIs, Zenon
  <2>6. Flight = Abs(a(r) - b) /\ a(p) \in {a(r), b}
    BY <1>3, <2>3, Zenon
  <2> HIDE DEF a, b, bin, rb, E
  <2>7. \A x \in {a(r), b} : 2 * (Abs(Abs(x) - E) - Abs(a(r) - b)) <= 4 * NZ
    <3>1. Abs(bin(r)) < E /\ E <= Abs(rb)
      BY <2>3 DEF E, rb
    <3> QED
      BY <1>0, <2>4, <2>5, <3>1, BetweenNear, Zenon
  <2>8. 2 * (Abs(Abs(a(p)) - E) - Flight) <= 4 * NZ
    BY <2>6, <2>7, Zenon
  <2> QED
    BY <2>4, <2>8, NearIs, Zenon DEF a
<1> QED
  BY <1>4, <1>5

-----------------------------------------------------------------------------
(* The longitude of a pair *)

\* The smaller of two numbers.
LEMMA MinOfTwo ==
    ASSUME NEW x \in Int, NEW y \in Int
    PROVE  Min({x, y}) \in {x, y} /\ Min({x, y}) <= x /\ Min({x, y}) <= y
<1>1. \E m \in {x, y} : \A z \in {x, y} : m <= z
  <2>1. CASE x <= y
    BY <2>1
  <2>2. CASE y <= x
    BY <2>2
  <2> QED
    BY <2>1, <2>2
<1> QED
  BY <1>1 DEF Min

\* The even frame has as many zones as the latitude, the odd frame one less.
LEMMA NlonIs ==
    ASSUME NEW lat
    PROVE  /\ nl(lat) \in Nat \ {0} /\ Nlon(lat, FALSE) = nl(lat)
           /\ Nlon(lat, TRUE) = IF nl(lat) = 1 THEN 1 ELSE nl(lat) - 1
<1> DEFINE n == nl(lat)
<1>0. n \in Nat \ {0}
  <2>1. n \in 1..NLMax
    BY ZonesCounted
  <2>2. NLMax \in Nat
    BY CprAssumption DEF NLMax
  <2> HIDE DEF n
  <2> QED
    BY <2>1, <2>2
<1>1. Nlon(lat, FALSE) = Max({1, n}) /\ Nlon(lat, TRUE) = Max({1, n - 1})
  <2>1. Nlon(lat, FALSE) = Max({1, n - 0}) /\ Nlon(lat, TRUE) = Max({1, n - 1})
    BY DEF Nlon, Parity
  <2>2. n - 0 = n
    BY <1>0
  <2> QED
    BY <2>1, <2>2
<1> HIDE DEF n
<1>2. ASSUME NEW k \in Nat PROVE Max({1, k}) = IF k <= 1 THEN 1 ELSE k
  <2>1. \E m \in {1, k} : \A z \in {1, k} : m >= z
    <3>1. CASE k <= 1
      BY <3>1
    <3>2. CASE k >= 1
      BY <3>2
    <3> QED
      BY <3>1, <3>2
  <2>2. Max({1, k}) \in {1, k} /\ \A z \in {1, k} : Max({1, k}) >= z
    BY <2>1 DEF Max
  <2> QED
    BY <2>2
<1>3. n - 1 \in Nat /\ n \in Nat
  BY <1>0
<1>4. /\ Max({1, n}) = (IF n <= 1 THEN 1 ELSE n)
      /\ Max({1, n - 1}) = (IF n - 1 <= 1 THEN 1 ELSE n - 1)
  BY <1>2, <1>3
<1> QED
  <2>1. Max({1, n}) = n /\ Max({1, n - 1}) = IF n = 1 THEN 1 ELSE n - 1
    BY <1>0, <1>4
  <2> QED
    BY <1>0, <1>1, <2>1, Zenon DEF n

\* The distance around the circle is that of two longitudes, but for whole turns.
LEMMA AroundIs ==
    ASSUME NEW u \in Int, NEW v \in Int
    PROVE  /\ Around(u, v) \in Nat
           /\ \E d, c \in Int : /\ u - v = d + LonCircle * c
                                /\ Around(u, v) = d \/ Around(u, v) = -d
<1> DEFINE x == (u - v) % LonCircle
           y == (v - u) % LonCircle
           p == (u - v) \div LonCircle
           q == (v - u) \div LonCircle
<1>0. LonCircle \in Nat \ {0} /\ u - v \in Int /\ v - u \in Int
  BY Globe
<1>1. /\ x \in 0..(LonCircle - 1) /\ p \in Int /\ u - v = LonCircle * p + x
      /\ y \in 0..(LonCircle - 1) /\ q \in Int /\ v - u = LonCircle * q + y
  BY <1>0, InZones, Zenon
<1>2. Around(u, v) = Min({x, y})
  BY DEF Around
<1> HIDE DEF x, y, p, q
<1>3. Around(u, v) \in {x, y} /\ x \in Nat /\ y \in Nat
  <2>1. x \in Nat /\ y \in Nat
    BY <1>0, <1>1
  <2> QED
    BY <1>2, <2>1, MinOfTwo
<1>4. CASE Around(u, v) = x
  <2>1. u - v = x + LonCircle * p
    BY <1>0, <1>1, <1>3
  <2> QED
    BY <1>1, <1>3, <1>4, <2>1
<1>5. CASE Around(u, v) = y
  <2>1. u - v = (-y) + LonCircle * (-q) /\ -y \in Int /\ -q \in Int
    <3>1. LonCircle * (-q) = -(LonCircle * q) /\ LonCircle * q \in Int
      BY <1>0, <1>1
    <3> QED
      BY <1>0, <1>1, <1>3, <3>1
  <2>2. Around(u, v) = -(-y)
    BY <1>3, <1>5
  <2> QED
    BY <1>3, <2>1, <2>2
<1> QED
  BY <1>3, <1>4, <1>5

\* No way around the circle is shorter.
LEMMA AroundLeast ==
    ASSUME NEW u \in Int, NEW v \in Int, NEW e \in Int, NEW t \in Int, u - v = e + LonCircle * t
    PROVE  Around(u, v) <= Abs(e)
<1> DEFINE x == (u - v) % LonCircle
           y == (v - u) % LonCircle
           p == (u - v) \div LonCircle
           q == (v - u) \div LonCircle
<1>0. LonCircle \in Nat \ {0} /\ u - v \in Int /\ v - u \in Int
  BY Globe
<1>1. /\ x \in 0..(LonCircle - 1) /\ p \in Int /\ u - v = LonCircle * p + x
      /\ y \in 0..(LonCircle - 1) /\ q \in Int /\ v - u = LonCircle * q + y
  BY <1>0, InZones, Zenon
<1>2. Around(u, v) = Min({x, y})
  BY DEF Around
<1> HIDE DEF x, y, p, q
<1>3. x \in Nat /\ y \in Nat /\ x < LonCircle /\ y < LonCircle
  BY <1>0, <1>1
<1>4. Around(u, v) <= x /\ Around(u, v) <= y /\ Around(u, v) \in Nat
  BY <1>2, <1>3, MinOfTwo
<1>5. CASE e >= 0
  <2>1. LonCircle * (p - t) = e - x
    <3>1. LonCircle * (p - t) = LonCircle * p - LonCircle * t
      BY <1>0, <1>1
    <3> DEFINE f == LonCircle * p
               g == LonCircle * t
    <3>2. f \in Int /\ g \in Int /\ u - v = f + x /\ u - v = e + g
      BY <1>0, <1>1
    <3> HIDE DEF f, g
    <3>3. f - g = e - x
      BY <1>3, <3>2
    <3> QED
      BY <3>1, <3>3 DEF f, g
  <2>2. LonCircle * (p - t) > LonCircle * (-1)
    BY <1>0, <1>3, <1>5, <2>1
  <2>3. p - t > -1
    BY <1>0, <1>1, <2>2
  <2>4. LonCircle * (p - t) >= 0
    BY <1>0, <1>1, <2>3
  <2>5. x <= e
    BY <1>3, <2>1, <2>4
  <2> QED
    BY <1>3, <1>4, <1>5, <2>5 DEF Abs
<1>6. CASE e < 0
  <2>1. LonCircle * (q + t) = -e - y
    <3>1. LonCircle * (q + t) = LonCircle * q + LonCircle * t
      BY <1>0, <1>1
    <3> DEFINE f == LonCircle * q
               g == LonCircle * t
    <3>2. f \in Int /\ g \in Int /\ v - u = f + y /\ u - v = e + g
      BY <1>0, <1>1
    <3> HIDE DEF f, g
    <3>3. f + g = -e - y
      BY <1>3, <3>2
    <3> QED
      BY <3>1, <3>3 DEF f, g
  <2>2. LonCircle * (q + t) > LonCircle * (-1)
    BY <1>0, <1>3, <1>6, <2>1
  <2>3. q + t > -1
    BY <1>0, <1>1, <2>2
  <2>4. LonCircle * (q + t) >= 0
    BY <1>0, <1>1, <2>3
  <2>5. y <= -e
    BY <1>3, <2>1, <2>4
  <2> QED
    BY <1>3, <1>4, <1>6, <2>5 DEF Abs
<1> QED
  BY <1>5, <1>6

\* The bins of a format, in units of longitude.
LonBin(lat, odd) == Dlon(lat, odd) \div Bins

\* A longitude zone is that many bins.
LEMMA LonBins ==
    ASSUME NEW lat, NEW odd \in BOOLEAN
    PROVE  /\ LonBin(lat, odd) \in Nat \ {0} /\ Dlon(lat, odd) = Bins * LonBin(lat, odd)
           /\ Nlon(lat, odd) \in Nat \ {0} /\ LonCircle = Dlon(lat, odd) * Nlon(lat, odd)
           /\ LonZones = Nlon(lat, odd) * LonBin(lat, odd)
<1>1. PICK w \in Nat \ {0} : /\ Dlon(lat, odd) = Bins * w
                             /\ Nlon(lat, odd) \in Nat \ {0}
                             /\ LonCircle = Dlon(lat, odd) * Nlon(lat, odd)
                             /\ LonZones = Nlon(lat, odd) * w
  BY LonZone
<1>2. LonBin(lat, odd) = w
  BY <1>1, BinsOfZone, Zenon DEF LonBin
<1> QED
  BY <1>1, <1>2, Zenon

\* What is decoded of a longitude before the hemisphere is chosen, from where the two
\* frames were sent.
LonRaw(lat, be, bo, q) ==
    Dlon(lat, q) * (ZoneIndex(Field(be, Dlon(lat, FALSE)), Field(bo, Dlon(lat, TRUE)), nl(lat))
                      % Nlon(lat, q))
      + Field(IF q THEN bo ELSE be, Dlon(lat, q)) * LonBin(lat, q)

\* It is the frame's bin, perhaps turned: the index tells the zone where there are
\* several, and where there is one there is nothing to tell.
LEMMA LonPlaced ==
    ASSUME NEW lat, NEW be \in Int, NEW bo \in Int, NEW q \in BOOLEAN,
           Bears(nl(lat), LonZones, Around(be, bo)),
           NEW b, b = IF q THEN bo ELSE be
    PROVE  \E t \in Int : LonRaw(lat, be, bo, q)
                            = Rounded(b, Dlon(lat, q), LonBin(lat, q)) + LonCircle * t
<1> DEFINE n == nl(lat)
           we == LonBin(lat, FALSE)
           wo == LonBin(lat, TRUE)
           w == LonBin(lat, q)
           zone == Dlon(lat, q)
           ye == Field(be, Dlon(lat, FALSE))
           yo == Field(bo, Dlon(lat, TRUE))
           m == ZoneIndex(ye, yo, n)
           y == Field(b, zone)
<1> SUFFICES \E t \in Int : LonRaw(lat, be, bo, q) = Rounded(b, zone, w) + LonCircle * t
  OBVIOUS
<1>0. Bins \in Nat \ {0} /\ LonZones \in Nat \ {0} /\ b \in Int
  BY CprAssumption
<1>1. n \in Nat \ {0} /\ Nlon(lat, FALSE) = n /\ Nlon(lat, TRUE) = IF n = 1 THEN 1 ELSE n - 1
  BY NlonIs
<1>2. /\ we \in Nat \ {0} /\ Dlon(lat, FALSE) = Bins * we /\ LonZones = Nlon(lat, FALSE) * we
      /\ wo \in Nat \ {0} /\ Dlon(lat, TRUE) = Bins * wo /\ LonZones = Nlon(lat, TRUE) * wo
      /\ w \in Nat \ {0} /\ zone = Bins * w /\ LonZones = Nlon(lat, q) * w
      /\ LonCircle = zone * Nlon(lat, q)
  BY LonBins, Zenon
<1>3. LonRaw(lat, be, bo, q) = zone * (m % Nlon(lat, q)) + y * w
  BY DEF LonRaw
<1>4. Rounded(b, zone, w) = zone * ZoneOf(b, zone) + y * w
  BY DEF Rounded
<1>5. ZoneOf(b, zone) \in Int /\ y \in Coords /\ ye \in Coords /\ yo \in Coords
  BY <1>0, <1>2, RoundedNearAt, Zenon
<1>6. m \in Int
  BY <1>1, <1>5, IndexType, Zenon
<1>7. CASE n = 1
  <2> DEFINE z == ZoneOf(b, zone)
             e == y * w
  <2>1. Nlon(lat, q) = 1
    BY <1>1, <1>7
  <2>2. e \in Int /\ zone \in Int
    BY <1>0, <1>2, <1>5 DEF Coords
  <2>3. z \in Int /\ LonRaw(lat, be, bo, q) = zone * (m % 1) + e
        /\ Rounded(b, zone, w) = zone * z + e /\ LonCircle = zone * 1
    BY <1>2, <1>3, <1>4, <1>5, <2>1
  <2> HIDE DEF z, e, zone, m, w, y
  <2>4. m % 1 = 0
    BY <1>6
  <2>5. zone * (m % 1) + e = (zone * z + e) + (zone * 1) * (-z)
    <3>1. (zone * 1) * (-z) = -(zone * z) /\ zone * z \in Int /\ zone * 0 = 0
      BY <2>2, <2>3
    <3> QED
      BY <2>2, <2>4, <3>1
  <2>6. -z \in Int
    BY <2>3
  <2> QED
    BY <2>3, <2>5, <2>6
<1>8. CASE n # 1
  <2>1. n \in Nat \ {0, 1} /\ Nlon(lat, FALSE) = n /\ Nlon(lat, TRUE) = n - 1
        /\ LonZones = n * we /\ LonZones = (n - 1) * wo
    BY <1>1, <1>2, <1>8
  <2>2. PICK d \in Int, c \in Int : /\ be - bo = d + LonCircle * c
                                    /\ Around(be, bo) = d \/ Around(be, bo) = -d
    BY AroundIs
  <2>3. Around(be, bo) \in Nat
    BY AroundIs
  <2>4. Bears(n, LonZones, d) /\ Bears(n, LonZones, -d)
    <3>1. Bears(n, LonZones, Around(be, bo))
      OBVIOUS
    <3>2. LonZones \in Nat
      BY <1>0
    <3> HIDE DEF n
    <3> QED
      BY <1>1, <2>2, <2>3, <3>1, <3>2, BearsBoth
  <2>5. be - bo = d + (LonZones * Bins) * c /\ LonCircle = LonZones * Bins
    BY <2>2 DEF LonCircle
  <2> HIDE DEF n, we, wo
  <2>6. Placed(n, LonZones, we, wo, be, bo)
    BY <1>0, <1>2, <2>1, <2>2, <2>4, <2>5, PairPlaced, Zenon
  <2>7. m = ZoneIndex(Field(be, Bins * we), Field(bo, Bins * wo), n)
    BY <1>2
  <2>8. CASE q
    <3>1. q = TRUE
      BY <2>8
    <3>2. b = bo /\ w = wo /\ zone = Bins * wo /\ Nlon(lat, q) = n - 1
      BY <1>2, <2>1, <3>1 DEF wo
    <3> HIDE DEF m, w, zone
    <3> QED
      BY <1>3, <2>5, <2>6, <2>7, <3>2, Zenon DEF Placed
  <2>9. CASE ~q
    <3>1. q = FALSE
      BY <2>9
    <3>2. b = be /\ w = we /\ zone = Bins * we /\ Nlon(lat, q) = n
      BY <1>2, <2>1, <3>1 DEF we
    <3> HIDE DEF m, w, zone
    <3> QED
      BY <1>3, <2>5, <2>6, <2>7, <3>2, Zenon DEF Placed
  <2> QED
    BY <2>8, <2>9
<1> QED
  BY <1>7, <1>8

\* The longitudes of two frames, encoded with the zones of the latitude they are decoded
\* at, are decoded to within half a bin of where the frames were sent.
LEMMA LonDecoded ==
    ASSUME NEW lat, NEW be \in Int, NEW bo \in Int, NEW q \in BOOLEAN,
           Bears(nl(lat), LonZones, Around(be, bo)),
           NEW even, NEW odd,
           even[2] = Field(be, Dlon(lat, FALSE)), odd[2] = Field(bo, Dlon(lat, TRUE)),
           NEW b, b = IF q THEN bo ELSE be
    PROVE  2 * Bins * Around(DecodedLon(even, odd, q, lat), b) <= Dlon(lat, q)
<1> DEFINE l == LonRaw(lat, be, bo, q)
           lon == DecodedLon(even, odd, q, lat)
           w == LonBin(lat, q)
           zone == Dlon(lat, q)
           R == Rounded(b, zone, w)
           A == Around(lon, b)
<1>0. Bins \in Nat \ {0} /\ LonCircle \in Nat \ {0} /\ b \in Int
  BY CprAssumption, Globe
<1>1. lon = IF 2 * l >= LonCircle THEN l - LonCircle ELSE l
  BY DEF DecodedLon, LonRaw, LonBin
<1>2. PICK t \in Int : l = R + LonCircle * t
  BY LonPlaced
<1>3. w \in Nat \ {0} /\ zone = Bins * w
  BY LonBins
<1>4. R \in Int /\ -w <= 2 * (b - R) /\ 2 * (b - R) < w
  BY <1>0, <1>3, RoundedNear
<1> HIDE DEF l, lon, w, zone, R
<1>5. PICK u \in Int : lon \in Int /\ lon - b = (R - b) + LonCircle * u
  <2>1. LonCircle * t \in Int /\ LonCircle * (t - 1) = LonCircle * t - LonCircle /\ t - 1 \in Int
    BY <1>0, <1>2
  <2> DEFINE g == LonCircle * t
             h == LonCircle * (t - 1)
  <2>2. g \in Int /\ h = g - LonCircle /\ l = R + g
    BY <1>2, <2>1
  <2> HIDE DEF g, h
  <2>3. CASE lon = l
    <3>1. lon \in Int /\ lon - b = (R - b) + g
      BY <1>0, <1>4, <2>2, <2>3
    <3> QED
      BY <1>2, <3>1 DEF g
  <2>4. CASE lon = l - LonCircle
    <3>1. lon \in Int /\ lon - b = (R - b) + h
      BY <1>0, <1>4, <2>2, <2>4
    <3> QED
      BY <2>1, <3>1 DEF h
  <2> QED
    BY <1>1, <2>3, <2>4
<1>6. A <= Abs(R - b) /\ A \in Nat
  <2>1. R - b \in Int
    BY <1>0, <1>4
  <2> QED
    BY <1>0, <1>5, <2>1, AroundLeast, AroundIs, Zenon
<1> HIDE DEF A
<1>7. 2 * A <= w
  BY <1>0, <1>3, <1>4, <1>6 DEF Abs
<1>8. 2 * Bins * A <= Bins * w
  <2>1. 2 * Bins * A = Bins * (2 * A)
    BY <1>0, <1>6
  <2>2. Bins * (2 * A) <= Bins * w
    BY <1>0, <1>3, <1>6, <1>7
  <2> QED
    BY <2>1, <2>2
<1> QED
  BY <1>3, <1>8 DEF A, lon, zone

\* Outside the slivers the encoder counts the longitude zones of the bin that is decoded.
LEMMA SameZones ==
    ASSUME NEW p, p[1] \in Int, NEW q \in BOOLEAN, ~InSliver(p, q)
    PROVE  nl(Rlat(p[1], q)) = nl(LatBin(p[1], q))
<1> DEFINE a == p[1]
           zone == Dlat(q)
           w == BinLat(q)
           y == Field(a, zone)
           k == a \div zone
           foot == Rlat(a, q)
<1>0. a \in Int
  OBVIOUS
<1>1. Bins \in Nat \ {0} /\ w \in Nat \ {0} /\ zone = Bins * w
  BY LatBins, CprAssumption
<1>2. zone \in Nat \ {0} /\ zone \div Bins = w
  <2>1. zone \div Bins = w
    BY <1>1, BinsOfZone, Zenon
  <2>2. zone \in Nat \ {0}
    BY <1>1
  <2> QED
    BY <2>1, <2>2
<1>3. foot = y * w + zone * k
  BY <1>2 DEF Rlat
<1>4. LatBin(a, q) = zone * (k + (IF Bin(a, zone) = Bins THEN 1 ELSE 0)) + y * w
  BY DEF LatBin, Rounded, ZoneOf
<1>5. k \in Int /\ y * w \in Int
  <2>1. y \in Coords
    BY <1>0, <1>2, FieldFits
  <2>2. y \in Int
    BY <1>1, <2>1 DEF Coords
  <2> HIDE DEF y, w, zone
  <2>3. y * w \in Int
    BY <1>1, <2>2
  <2>4. k \in Int
    BY <1>0, <1>2, InZones, Zenon
  <2> QED
    BY <2>3, <2>4
<1>6. CASE Bin(a, zone) = Bins
  <2>1. nl(foot) = nl(foot + zone)
    BY <1>6 DEF InSliver
  <2>2. LatBin(a, q) = zone * (k + 1) + y * w
    BY <1>4, <1>6
  <2> DEFINE e == y * w
             g == zone * k
  <2>3. e \in Int /\ g \in Int /\ zone * (k + 1) = g + zone
    <3> HIDE DEF zone, k, y, w
    <3> QED
      BY <1>2, <1>5
  <2> HIDE DEF e, g
  <2>4. (g + zone) + e = (e + g) + zone
    BY <1>2, <2>3
  <2>5. LatBin(a, q) = foot + zone
    BY <1>3, <2>2, <2>3, <2>4 DEF e, g
  <2> QED
    BY <2>1, <2>5
<1>7. CASE Bin(a, zone) # Bins
  <2>1. LatBin(a, q) = zone * (k + 0) + y * w
    BY <1>4, <1>7
  <2> DEFINE e == y * w
             g == zone * k
  <2>2. e \in Int /\ g \in Int /\ k + 0 = k
    <3> HIDE DEF zone, k, y, w
    <3> QED
      BY <1>2, <1>5
  <2> HIDE DEF e, g
  <2>3. g + e = e + g
    BY <2>2
  <2>4. LatBin(a, q) = foot
    BY <1>3, <2>1, <2>2, <2>3 DEF e, g
  <2> QED
    BY <2>4
<1> QED
  BY <1>6, <1>7

\* The longitude zones depend on the latitude by their number only.
LEMMA DlonSame ==
    ASSUME NEW x, NEW y, nl(x) = nl(y), NEW q \in BOOLEAN
    PROVE  Dlon(x, q) = Dlon(y, q)
  BY DEF Dlon, Nlon

\* A double less than half a bin from a bin is encoded as that bin's field, and rounded
\* to it, in its own zone or, slipped below a foot, from the one below.
LEMMA SlippedBack ==
    ASSUME NEW w \in Nat \ {0}, NEW y \in Coords, NEW x \in Int, NEW zone, zone = Bins * w,
           OnBin(x, zone, y), NEW s \in Int, -w < 2 * s, 2 * s < w
    PROVE  Field(x + s, zone) = y /\ Rounded(x + s, zone, w) = x
<1> DEFINE a == x + s
           z == ZoneOf(a, zone)
           f == Field(a, zone)
<1>0. Bins \in Nat \ {0} /\ y \in 0..(Bins - 1) /\ y \in Int
  BY CprAssumption DEF Coords
<1>1. zone \div Bins = w
  BY BinsOfZone, Zenon
<1>2. PICK k \in Int : x = zone * k + y * w
  BY <1>1 DEF OnBin
<1>3. /\ z \in Int /\ f \in 0..(Bins - 1) /\ f \in Int /\ Rounded(a, zone, w) \in Int
      /\ -w <= 2 * (a - Rounded(a, zone, w)) /\ 2 * (a - Rounded(a, zone, w)) < w
  <2>1. a \in Int
    OBVIOUS
  <2> HIDE DEF a
  <2>2. /\ z \in Int /\ f \in Coords /\ Rounded(a, zone, w) \in Int
        /\ -w <= 2 * (a - Rounded(a, zone, w)) /\ 2 * (a - Rounded(a, zone, w)) < w
    BY <2>1, RoundedNear
  <2> HIDE DEF z, f
  <2> QED
    BY <1>0, <2>2 DEF Coords
<1>4. Rounded(a, zone, w) = zone * z + f * w
  BY DEF Rounded
<1> DEFINE t == Bins * (z - k) + (f - y)
<1> HIDE DEF z, f
<1>5. t \in Int /\ Rounded(a, zone, w) - x = w * t
  <2>1. zone * z - zone * k = w * (Bins * (z - k)) /\ f * w - y * w = w * (f - y)
    BY <1>0, <1>3
  <2>2. w * t = w * (Bins * (z - k)) + w * (f - y)
    BY <1>0, <1>3
  <2> DEFINE b == zone * z
             c == zone * k
             d == f * w
             e == y * w
  <2>3. b \in Int /\ c \in Int /\ d \in Int /\ e \in Int
    BY <1>0, <1>3
  <2> HIDE DEF b, c, d, e
  <2>4. (b + d) - (c + e) = (b - c) + (d - e)
    BY <2>3
  <2>5. t \in Int
    BY <1>0, <1>3
  <2> QED
    BY <1>2, <1>4, <2>1, <2>2, <2>4, <2>5 DEF b, c, d, e
<1> HIDE DEF t
<1>6. t = 0
  <2>1. -w < w * t /\ w * t < w
    <3> DEFINE r == Rounded(a, zone, w)
               u == w * t
    <3>1. r \in Int /\ u \in Int /\ r - x = u /\ -w <= 2 * ((x + s) - r)
          /\ 2 * ((x + s) - r) < w
      BY <1>3, <1>5
    <3> HIDE DEF r, u
    <3>2. -w < u /\ u < w
      BY <3>1
    <3> QED
      BY <3>2 DEF u
  <2>2. CASE t >= 1
    <3>1. w * t >= w
      BY <1>5, <2>2
    <3> QED
      BY <1>5, <2>1, <3>1
  <2>3. CASE t <= -1
    <3>1. w * t <= -w
      BY <1>5, <2>3
    <3> QED
      BY <1>5, <2>1, <3>1
  <2> QED
    BY <1>5, <2>2, <2>3
<1>7. Rounded(a, zone, w) = x
  BY <1>3, <1>5, <1>6
<1>8. f = y
  <2> DEFINE m == z - k
  <2>1. m \in Int /\ Bins * m = y - f
    BY <1>0, <1>3, <1>6 DEF t
  <2> HIDE DEF m
  <2>2. ~(m >= 1)
    <3> SUFFICES ASSUME m >= 1 PROVE FALSE
      OBVIOUS
    <3>1. Bins * m >= Bins
      BY <1>0, <2>1
    <3> QED
      BY <1>0, <1>3, <2>1, <3>1
  <2>3. ~(m <= -1)
    <3> SUFFICES ASSUME m <= -1 PROVE FALSE
      OBVIOUS
    <3>1. Bins * m <= -Bins
      BY <1>0, <2>1
    <3> QED
      BY <1>0, <1>3, <2>1, <3>1
  <2>4. m = 0
    BY <2>1, <2>2, <2>3
  <2> QED
    BY <1>0, <1>3, <2>1, <2>4
<1> QED
  BY <1>7, <1>8 DEF a, f

\* What is decoded, on whichever side of its bin the double comes out, is encoded as the
\* frame it was decoded for; its longitude, where the encoder sees the same zones.
LEMMA EncodedAgain ==
    ASSUME NEW even \in Frames, NEW odd \in Frames, NEW q \in BOOLEAN,
           NEW p \in global_decode_airborne(even, odd, q), NEW d \in Doubles(p)
    PROVE  /\ encode_airborne(d, q)[1] = Frame(even, odd, q)[1]
           /\ encode_airborne(d, q)[2] = Frame(even, odd, q)[2] \/ InSliver(d, q)
<1> DEFINE y == Frame(even, odd, q)[1]
           x == Frame(even, odd, q)[2]
           v == BinLat(q)
           w == LonBin(p[1], q)
<1>1. /\ p[1] \in Int /\ OnBin(p[1], Dlat(q), y)
      /\ OnBin(p[2], Dlon(p[1], q), x)
  BY DecodedBack
<1>2. y \in Coords /\ x \in Coords
  BY DEF Frames, Frame
<1>3. PICK s \in Slips, t \in Slips : d = <<p[1] + s, p[2] + t>>
  BY DEF Doubles
<1>4. /\ s \in Int /\ t \in Int /\ -NLMax < 2 * s /\ 2 * s < NLMax
      /\ -LonZones < 2 * NLMax * t /\ 2 * NLMax * t < LonZones
      /\ NLMax \in Nat \ {0} /\ NLMax < 4 * NZ /\ LonZones \in Nat /\ NZ \in Nat
  <2>1. /\ NLMax \in Nat \ {0} /\ NLMax < 4 * NZ /\ LonZones \in Nat /\ NZ \in Nat
    BY CprAssumption DEF NLMax
  <2>2. /\ s \in Int /\ 2 * s \in (-NLMax + 1)..(NLMax - 1)
        /\ t \in Int /\ 2 * NLMax * t \in (-LonZones + 1)..(LonZones - 1)
    BY <1>3, CprAssumption, Zenon
  <2> DEFINE n == NLMax
             g == 2 * NLMax * t
  <2>3. n \in Nat /\ g \in Int /\ 2 * s \in (-n + 1)..(n - 1)
        /\ g \in (-LonZones + 1)..(LonZones - 1)
    BY <2>1, <2>2
  <2> HIDE DEF n, g
  <2>4. -n < 2 * s /\ 2 * s < n /\ -LonZones < g /\ g < LonZones
    BY <2>1, <2>2, <2>3
  <2> QED
    BY <2>1, <2>2, <2>4 DEF n, g
<1>5. v \in Nat \ {0} /\ Dlat(q) = Bins * v /\ -v < 2 * s /\ 2 * s < v
  <2>1. v \in Nat \ {0} /\ Dlat(q) = Bins * v
    BY LatBins
  <2>2. v = NLMax \/ v = 4 * NZ
    BY DEF BinLat
  <2> QED
    BY <1>4, <2>1, <2>2
<1>6. w \in Nat \ {0} /\ Dlon(p[1], q) = Bins * w /\ -w < 2 * t /\ 2 * t < w
  <2> DEFINE n == Nlon(p[1], q)
  <2>1. w \in Nat \ {0} /\ Dlon(p[1], q) = Bins * w /\ LonZones = n * w
    BY LonBins
  <2>2. n \in 1..NLMax
    BY ZonesCounted
  <2> HIDE DEF n, w
  <2>3. n * w <= NLMax * w
    BY <1>4, <2>1, <2>2
  <2>4. NLMax * (2 * t) < NLMax * w /\ NLMax * (-w) < NLMax * (2 * t)
    <3> DEFINE g == NLMax * t
               h == NLMax * w
    <3>1. g \in Int /\ h \in Int /\ LonZones <= h /\ -LonZones < 2 * g /\ 2 * g < LonZones
      BY <1>4, <2>1, <2>3
    <3>2. NLMax * (2 * t) = 2 * g /\ NLMax * (-w) = -h
      BY <1>4, <2>1
    <3> HIDE DEF g, h
    <3>3. 2 * g < h /\ -h < 2 * g
      BY <1>4, <3>1
    <3> QED
      BY <3>2, <3>3 DEF h
  <2>5. 2 * t < w /\ -w < 2 * t
    BY <1>4, <2>1, <2>4
  <2> QED
    BY <2>1, <2>5
<1>7. p[2] \in Int
  <2>1. PICK k \in Int : p[2] = Dlon(p[1], q) * k + x * (Dlon(p[1], q) \div Bins)
    BY <1>1 DEF OnBin
  <2>2. Dlon(p[1], q) \div Bins = w
    BY DEF LonBin
  <2>3. Bins \in Nat /\ x \in Int
    BY <1>2, CprAssumption DEF Coords
  <2>4. Dlon(p[1], q) \in Int
    BY <1>6, <2>3
  <2> HIDE DEF w, x
  <2>5. Dlon(p[1], q) * k \in Int /\ x * w \in Int
    BY <1>6, <2>3, <2>4
  <2> QED
    BY <2>1, <2>2, <2>5
<1> HIDE DEF y, x, v, w
<1>8. d[1] = p[1] + s /\ d[2] = p[2] + t /\ d[1] \in Int
  BY <1>1, <1>3, <1>4
<1>9. Field(d[1], Dlat(q)) = y /\ Rounded(d[1], Dlat(q), v) = p[1]
  BY <1>1, <1>2, <1>4, <1>5, <1>8, SlippedBack
<1>10. Field(d[2], Dlon(p[1], q)) = x
  BY <1>1, <1>2, <1>4, <1>6, <1>7, <1>8, SlippedBack
<1>11. ASSUME ~InSliver(d, q) PROVE Dlon(Rlat(d[1], q), q) = Dlon(p[1], q)
  <2>1. nl(Rlat(d[1], q)) = nl(LatBin(d[1], q))
    BY <1>8, <1>11, SameZones
  <2>2. LatBin(d[1], q) = p[1]
    BY <1>9 DEF LatBin, v
  <2> QED
    BY <2>1, <2>2, DlonSame, Zenon
<1>12. /\ encode_airborne(d, q)[1] = Field(d[1], Dlat(q))
       /\ encode_airborne(d, q)[2] = Field(d[2], Dlon(Rlat(d[1], q), q))
  BY DEF encode_airborne
<1> QED
  BY <1>9, <1>10, <1>11, <1>12 DEF x, y

\* A pair of a flight the index bears decodes to within half a bin of where each frame
\* was sent.
LEMMA PairRecovered ==
    ASSUME TypeOK, NEW even, NEW odd, Sent(even, odd), NEW q \in BOOLEAN,
           NEW p \in global_decode_airborne(even, odd, q)
    PROVE  /\ 2 * Bins * Abs(p[1] - at[q][1]) <= Dlat(q)
           /\ Bears(nl(p[1]), LonZones, Drift) /\ (\A r \in BOOLEAN : ~InSliver(at[r], r)) =>
                2 * Bins * Around(p[2], at[q][2]) <= Dlon(p[1], q)
<1> DEFINE lat(r) == DecodedLat(even, odd, r)
           lats == {DecodedLat(even, odd, r) : r \in BOOLEAN}
           bin(r) == LatBin(at[r][1], r)
<1>1. /\ ~PastPole(lats) /\ ~Straddles(lats)
      /\ p = <<lat(q), DecodedLon(even, odd, q, lat(q))>>
  BY DEF global_decode_airborne
<1>2. p[1] = lat(q) /\ p[2] = DecodedLon(even, odd, q, lat(q))
  BY <1>1
<1>3. \A r \in BOOLEAN : lat(r) = bin(r)
  BY <1>1, BinsDecoded, Zenon
<1>4. 2 * Bins * Abs(p[1] - at[q][1]) <= Dlat(q)
  <2> DEFINE a == at[q][1]
             w == BinLat(q)
             R == bin(q)
  <2>1. p[1] = R
    BY <1>2, <1>3, Zenon
  <2>2. Bins \in Nat \ {0} /\ w \in Nat \ {0} /\ Dlat(q) = Bins * w
    BY LatBins, CprAssumption
  <2>3. R \in Int /\ -w <= 2 * (a - R) /\ 2 * (a - R) <= w
    BY SentLats, Zenon
  <2>4. a \in Int
    BY FlightIs, Zenon
  <2> DEFINE A == Abs(R - a)
  <2> HIDE DEF a, w, R
  <2>5. A \in Nat /\ 2 * A <= w
    BY <2>2, <2>3, <2>4 DEF Abs
  <2> HIDE DEF A
  <2>6. 2 * Bins * A = Bins * (2 * A) /\ Bins * (2 * A) <= Bins * w
    BY <2>2, <2>5
  <2>7. 2 * Bins * A <= Dlat(q)
    BY <2>2, <2>6
  <2> QED
    BY <2>1, <2>7 DEF A, a
<1>5. ASSUME Bears(nl(p[1]), LonZones, Drift), \A r \in BOOLEAN : ~InSliver(at[r], r)
      PROVE  2 * Bins * Around(p[2], at[q][2]) <= Dlon(p[1], q)
  <2>1. nl(lat(FALSE)) = nl(lat(TRUE))
    BY <1>1, StraddlesIs
  <2>2. \A r \in BOOLEAN : nl(lat(r)) = nl(lat(q))
    BY <2>1, Zenon
  <2>3. \A r \in BOOLEAN : nl(Rlat(at[r][1], r)) = nl(lat(r))
    <3>1. \A r \in BOOLEAN : at[r][1] \in Int
      BY FlightIs, Zenon
    <3> QED
      BY <1>3, <1>5, <3>1, SameZones, Zenon
  <2>4. \A r \in BOOLEAN : Dlon(Rlat(at[r][1], r), r) = Dlon(lat(q), r)
    BY <2>2, <2>3, DlonSame, Zenon
  <2>5. /\ even[2] = Field(at[FALSE][2], Dlon(Rlat(at[FALSE][1], FALSE), FALSE))
        /\ odd[2] = Field(at[TRUE][2], Dlon(Rlat(at[TRUE][1], TRUE), TRUE))
    BY DEF Sent, encode_airborne
  <2>6. /\ even[2] = Field(at[FALSE][2], Dlon(lat(q), FALSE))
        /\ odd[2] = Field(at[TRUE][2], Dlon(lat(q), TRUE))
    BY <2>4, <2>5, Zenon
  <2>7. at[TRUE][2] \in Int /\ at[FALSE][2] \in Int
    <3>1. \A r \in BOOLEAN : at[r][2] \in 0..(LonCircle - 1)
      BY DEF TypeOK, Positions
    <3>2. \A x \in 0..(LonCircle - 1) : x \in Int
      BY Globe
    <3> QED
      BY <3>1, <3>2, Zenon
  <2>8. Bears(nl(lat(q)), LonZones, Around(at[FALSE][2], at[TRUE][2]))
    BY <1>2, <1>5 DEF Drift
  <2>9. at[q][2] = IF q THEN at[TRUE][2] ELSE at[FALSE][2]
    BY Zenon
  <2> HIDE DEF lat
  <2>10. 2 * Bins * Around(DecodedLon(even, odd, q, lat(q)), at[q][2]) <= Dlon(lat(q), q)
    BY <2>6, <2>7, <2>8, <2>9, LonDecoded, Zenon
  <2> QED
    BY <1>2, <2>10, Zenon
<1> QED
  BY <1>4, <1>5, Zenon

-----------------------------------------------------------------------------
(* The theorems *)

\* Fields fit from the start.
LEMMA InitType == Init => TypeOK
<1> SUFFICES ASSUME Init PROVE TypeOK
  OBVIOUS
<1>1. pos \in Positions
  BY CprAssumption DEF Init, Positions
<1>2. \A odd \in BOOLEAN : frame[odd] = {}
  BY DEF Init, Silent
<1>3. DOMAIN frame = BOOLEAN
  BY DEF Init, Silent
<1>4. Cardinality({}) <= 1
  BY FS_EmptySet
<1>5. at \in [BOOLEAN -> Positions] /\ flown = "no"
  BY <1>1 DEF Init
<1> QED
  BY <1>1, <1>2, <1>3, <1>4, <1>5 DEF TypeOK

\* A set of one frame has one.
LEMMA OneFrame ==
    ASSUME NEW f
    PROVE  Cardinality({f}) <= 1
<1>1. Cardinality({f}) = 1
  BY FS_Singleton
<1> QED
  BY <1>1

\* A frame sent is one frame that fits its bits.
LEMMA NextType == TypeOK /\ [Next]_vars => TypeOK'
<1> SUFFICES ASSUME TypeOK, [Next]_vars PROVE TypeOK'
  OBVIOUS
<1>0. /\ pos \in Positions /\ DOMAIN frame = BOOLEAN
      /\ \A odd \in BOOLEAN : frame[odd] \subseteq Frames /\ Cardinality(frame[odd]) <= 1
      /\ at \in [BOOLEAN -> Positions] /\ flown \in {"no", "leg", "foreign"}
  BY DEF TypeOK
<1>1. ASSUME NEW odd \in BOOLEAN, Squitter(odd) PROVE TypeOK'
  <2>1. pos \in Int \X Int
    BY <1>0, Globe DEF Positions
  <2>2. encode_airborne(pos, odd) \in Frames
    BY <2>1, FramesFit
  <2> DEFINE f == encode_airborne(pos, odd)
  <2>3. /\ frame' = [frame EXCEPT ![odd] = {f}] /\ at' = [at EXCEPT ![odd] = pos]
        /\ pos' = pos /\ flown' = flown
    BY <1>1 DEF Squitter
  <2>4. f \in Frames /\ Cardinality({f}) <= 1
    BY <2>2, OneFrame
  <2> HIDE DEF f
  <2>5. DOMAIN frame' = BOOLEAN /\ at' \in [BOOLEAN -> Positions]
    BY <1>0, <2>3
  <2>6. ASSUME NEW q \in BOOLEAN PROVE frame'[q] = {f} \/ frame'[q] = frame[q]
    BY <1>0, <2>3
  <2>7. \A q \in BOOLEAN : frame'[q] \subseteq Frames /\ Cardinality(frame'[q]) <= 1
    BY <1>0, <2>4, <2>6
  <2> QED
    BY <1>0, <2>3, <2>5, <2>7 DEF TypeOK
<1>2. ASSUME NEW leg \in Legs, Fly(leg) PROVE TypeOK'
  <2>1. /\ leg[1] \in Int /\ leg[2] \in Int /\ pos[1] \in Int /\ pos[2] \in Int
    BY <1>0, CprAssumption, Globe DEF Positions
  <2>2. /\ pos' = <<pos[1] + leg[1], (pos[2] + leg[2]) % LonCircle>>
        /\ Abs(pos[1] + leg[1]) <= Pole /\ flown' = "leg" /\ frame' = frame /\ at' = at
    BY <1>2 DEF Fly
  <2>3. pos[1] + leg[1] \in -Pole..Pole
    BY <2>1, <2>2, Globe DEF Abs
  <2>4. (pos[2] + leg[2]) % LonCircle \in 0..(LonCircle - 1)
    <3>1. pos[2] + leg[2] \in Int
      BY <2>1
    <3> QED
      BY <3>1, Globe
  <2>5. pos' \in Positions
    BY <2>2, <2>3, <2>4 DEF Positions
  <2> QED
    BY <1>0, <2>2, <2>5 DEF TypeOK
<1>3. ASSUME Foreign PROVE TypeOK'
  <2>1. PICK even \in Coords \X ForeignXz, odd \in Coords \X ForeignXz :
            frame' = [q \in BOOLEAN |-> {IF q THEN odd ELSE even}]
    BY <1>3 DEF Foreign
  <2>2. even \in Frames /\ odd \in Frames
    BY <2>1, CprAssumption DEF Frames, Coords
  <2>3. DOMAIN frame' = BOOLEAN
    BY <2>1
  <2>4. ASSUME NEW q \in BOOLEAN PROVE frame'[q] = {odd} \/ frame'[q] = {even}
    BY <2>1
  <2>5. Cardinality({odd}) <= 1 /\ Cardinality({even}) <= 1
    BY OneFrame
  <2>6. \A q \in BOOLEAN : frame'[q] \subseteq Frames /\ Cardinality(frame'[q]) <= 1
    BY <2>2, <2>4, <2>5
  <2> QED
    BY <1>0, <1>3, <2>3, <2>6 DEF TypeOK, Foreign
<1>4. CASE UNCHANGED vars
  BY <1>4 DEF TypeOK, vars
<1> QED
  BY <1>1, <1>2, <1>3, <1>4 DEF Next

\* Every field encode_airborne makes of any position fits its bits, for every number of
\* zones and bins.
THEOREM CprTypeCorrect == Spec => []TypeOK
<1> QED
  BY InitType, NextType, PTL DEF Spec

\* Whatever two frames a client sends: what global_decode_airborne makes of them is
\* nothing, or a position on the globe.  However its doubles fall, short of half a bin,
\* encode_airborne finds the latitude of the very frame, and the longitude wherever it
\* does not look up other zones than the decoder's.
THEOREM DecodingRoundTrips == Spec => []RoundTrips
<1>1. TypeOK => RoundTrips
  <2> SUFFICES ASSUME TypeOK, PairComplete, NEW odd \in BOOLEAN, NEW p \in Decoded(odd)
               PROVE  /\ Abs(p[1]) <= Pole /\ 2 * p[2] \in (-LonCircle)..(LonCircle - 1)
                      /\ \A d \in Doubles(p) :
                           /\ encode_airborne(d, odd)[1] = Only(frame[odd])[1]
                           /\ \/ encode_airborne(d, odd)[2] = Only(frame[odd])[2]
                              \/ InSliver(d, odd)
    BY DEF RoundTrips
  <2> DEFINE even_frame == Only(frame[FALSE])
             odd_frame == Only(frame[TRUE])
  <2>1. \A q \in BOOLEAN : frame[q] # {} /\ frame[q] \subseteq Frames
    BY DEF PairComplete, TypeOK
  <2>2. even_frame \in Frames /\ odd_frame \in Frames
    BY <2>1 DEF Only
  <2>3. p \in global_decode_airborne(even_frame, odd_frame, odd)
    BY DEF Decoded
  <2>4. Frame(even_frame, odd_frame, odd) = Only(frame[odd])
    BY DEF Frame
  <2> HIDE DEF even_frame, odd_frame
  <2>5. Abs(p[1]) <= Pole /\ 2 * p[2] \in (-LonCircle)..(LonCircle - 1)
    BY <2>2, <2>3, DecodedBack
  <2>6. ASSUME NEW d \in Doubles(p)
        PROVE  /\ encode_airborne(d, odd)[1] = Only(frame[odd])[1]
               /\ encode_airborne(d, odd)[2] = Only(frame[odd])[2] \/ InSliver(d, odd)
    BY <2>2, <2>3, <2>4, <2>6, EncodedAgain
  <2> QED
    BY <2>5, <2>6, Zenon
<1> QED
  BY <1>1, CprTypeCorrect, PTL

\* A frame that no client made up was encoded where the aircraft was when it sent it.
FramesSent ==
  flown # "foreign" =>
    \A odd \in BOOLEAN : frame[odd] # {} => frame[odd] = {encode_airborne(at[odd], odd)}

\* Frames are sent, and stay, as the encoder made them.
LEMMA SentStays == TypeOK /\ FramesSent /\ [Next]_vars => FramesSent'
<1> SUFFICES ASSUME TypeOK, FramesSent, [Next]_vars, flown' # "foreign", NEW q \in BOOLEAN,
                    frame'[q] # {}
             PROVE  frame'[q] = {encode_airborne(at'[q], q)}
  BY DEF FramesSent
<1>0. DOMAIN frame = BOOLEAN /\ DOMAIN at = BOOLEAN
  BY DEF TypeOK
<1>1. ASSUME frame'[q] = frame[q], at'[q] = at[q], flown # "foreign"
      PROVE  frame'[q] = {encode_airborne(at'[q], q)}
  BY <1>1, Zenon DEF FramesSent
<1>2. ASSUME NEW odd \in BOOLEAN, Squitter(odd)
      PROVE  frame'[q] = {encode_airborne(at'[q], q)}
  <2>1. /\ frame' = [frame EXCEPT ![odd] = {encode_airborne(pos, odd)}]
        /\ at' = [at EXCEPT ![odd] = pos] /\ flown' = flown
    BY <1>2 DEF Squitter
  <2>2. CASE q = odd
    <3>1. frame'[q] = {encode_airborne(pos, odd)} /\ at'[q] = pos
      BY <1>0, <2>1, <2>2
    <3> QED
      BY <2>2, <3>1, Zenon
  <2>3. CASE q # odd
    <3>1. frame'[q] = frame[q] /\ at'[q] = at[q]
      BY <1>0, <2>1, <2>3
    <3> QED
      BY <1>1, <2>1, <3>1, Zenon
  <2> QED
    BY <2>2, <2>3
<1>3. ASSUME NEW leg \in Legs, Fly(leg)
      PROVE  frame'[q] = {encode_airborne(at'[q], q)}
  <2>1. frame' = frame /\ at' = at /\ flown = "no"
    BY <1>3 DEF Fly
  <2> QED
    BY <1>1, <2>1
<1>4. ASSUME Foreign PROVE FALSE
  BY <1>4 DEF Foreign
<1>5. CASE UNCHANGED vars
  BY <1>1, <1>5 DEF vars
<1> QED
  BY <1>2, <1>3, <1>4, <1>5 DEF Next

\* For every number of zones and bins, every table of zone edges and every flight that the
\* zone index bears: the pair global_decode_airborne is given decodes, for either of its
\* frames, to within half a bin of where the aircraft sent that frame, or to nothing, and
\* then the flight was beside an edge of the longitude zones or a pole.
THEOREM FlightsRecovered == Spec => []Recovered
<1>1. Init => FramesSent
  BY DEF Init, Silent, FramesSent
<1>2. TypeOK /\ FramesSent => Recovered
  <2> SUFFICES ASSUME TypeOK, FramesSent, PairComplete, flown # "foreign",
                      Bears(4 * NZ, 4 * NZ * NLMax, Flight), NEW q \in BOOLEAN
               PROVE  /\ Decoded(q) = {} => NearEdge(at[q][1])
                      /\ \A p \in Decoded(q) :
                           /\ 2 * Bins * Abs(p[1] - at[q][1]) <= Dlat(q)
                           /\ Bears(nl(p[1]), LonZones, Drift)
                              /\ (\A r \in BOOLEAN : ~InSliver(at[r], r)) =>
                                2 * Bins * Around(p[2], at[q][2]) <= Dlon(p[1], q)
    BY Zenon DEF Recovered
  <2> DEFINE even == Only(frame[FALSE])
             odd == Only(frame[TRUE])
  <2>1. /\ frame[FALSE] = {encode_airborne(at[FALSE], FALSE)}
        /\ frame[TRUE] = {encode_airborne(at[TRUE], TRUE)}
    BY Zenon DEF FramesSent, PairComplete
  <2>2. \A f : Only({f}) = f
    BY DEF Only
  <2>3. Sent(even, odd)
    BY <2>1, <2>2, Zenon DEF Sent
  <2>4. Decoded(q) = global_decode_airborne(even, odd, q)
    BY DEF Decoded
  <2> HIDE DEF even, odd
  <2>5. Decoded(q) = {} => NearEdge(at[q][1])
    BY <2>3, <2>4, NothingNear, Zenon
  <2>6. ASSUME NEW p \in Decoded(q)
        PROVE  /\ 2 * Bins * Abs(p[1] - at[q][1]) <= Dlat(q)
               /\ Bears(nl(p[1]), LonZones, Drift) /\ (\A r \in BOOLEAN : ~InSliver(at[r], r)) =>
                    2 * Bins * Around(p[2], at[q][2]) <= Dlon(p[1], q)
    BY <2>3, <2>4, <2>6, PairRecovered, Zenon
  <2> QED
    BY <2>5, <2>6, Zenon
<1> QED
  BY <1>1, <1>2, SentStays, CprTypeCorrect, PTL DEF Spec

\* With the zones and bins of the code (NZ = 15, TWO17) the latitude's index bears 65476
\* units, a little over a twentieth of a degree or three nautical miles, and no more.
LEMMA CodeBears ==
    ASSUME NZ = 15, Bins = 131072, NEW d \in Nat
    PROVE  Bears(4 * NZ, 4 * NZ * NLMax, d) <=> d <= 65476
  BY DEF Bears, NLMax
=============================================================================
