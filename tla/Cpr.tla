-------------------------------- MODULE Cpr --------------------------------
(***************************************************************************)
(* Compact position reporting (mb-modes/src/cpr.rs): an aircraft squitters *)
(* an even and an odd frame while it flies, and the server decodes the two *)
(* as a pair, once for each frame (State::on_sync).  A behaviour is one    *)
(* pair.                                                                   *)
(*                                                                         *)
(* Angles are whole numbers of a unit chosen so that every zone and every  *)
(* bin of either format is a whole number of units, and every position     *)
(* between two bins is met.  The code computes in doubles, so the position *)
(* it returns may lie beside the bin, on either side: Slips says how far.  *)
(* The code has NZ = 15 and 2^17 bins.                                     *)
(***************************************************************************)
EXTENDS Integers, FiniteSets, FiniteSetsExt

CONSTANTS
  NZ,         \* a quarter of the latitude zones of the even format
  Bins,       \* what an encoded coordinate counts to (TWO17)
  LonZones,   \* a common multiple of every number of longitude zones
  Edge,       \* Edge[n]: latitude below which there are n longitude zones
  Slips,      \* by how much a double may miss the exact value
  Legs,       \* what an aircraft may fly between the frames of a pair
  StartLons,  \* longitudes at which flights begin
  ForeignXz   \* longitude fields of the pairs no flight explains

NLMax == 4 * NZ - 1

LatCircle == 4 * NZ * NLMax * Bins
LonCircle == LonZones * Bins
Pole == LatCircle \div 4

ASSUME CprAssumption ==
  /\ NZ \in Nat \ {0} /\ Bins \in Nat \ {0} /\ LonZones \in Nat \ {0}
  /\ \A n \in 1..NLMax : LonZones % n = 0
  /\ Edge \in [2..NLMax -> 1..Pole]
  /\ \A m, n \in 2..NLMax : m < n => Edge[n] < Edge[m]
  /\ \A s \in Slips :    \* a double is nearer than half a bin
       /\ s \in Int /\ 2 * s \in (-NLMax + 1)..(NLMax - 1)
       /\ 2 * NLMax * s \in (-LonZones + 1)..(LonZones - 1)
  /\ Legs \subseteq Int \X Int
  /\ StartLons \subseteq 0..(LonCircle - 1)
  /\ ForeignXz \subseteq 0..(Bins - 1)

VARIABLES
  pos,     \* where the aircraft is: <<latitude, longitude>>
  frame,   \* frame[odd]: the frame of that format, if it was sent
  at,      \* at[odd]: where the aircraft was when it sent it
  flown    \* "no", "leg", or "foreign" when the pair is nobody's flight

vars == <<pos, frame, at, flown>>

Abs(x) == IF x < 0 THEN -x ELSE x
Parity(odd) == IF odd THEN 1 ELSE 0

Coords == 0..(Bins - 1)
Frames == Coords \X Coords
Positions == (-Pole..Pole) \X (0..(LonCircle - 1))

-----------------------------------------------------------------------------
(* Encoding.                                                               *)

\* The number of longitude zones at a latitude.
nl(lat) == Cardinality({n \in 1..NLMax : n = 1 \/ Abs(lat) < Edge[n]})

Dlat(odd) == LatCircle \div (4 * NZ - Parity(odd))
Nlon(lat, odd) == Max({1, nl(lat) - Parity(odd)})
Dlon(lat, odd) == LonCircle \div Nlon(lat, odd)

\* The nearest bin of a coordinate in its zone; the upper half of the last
\* bin rounds to the next zone's first.
Bin(x, zone) == (2 * Bins * (x % zone) + zone) \div (2 * zone)

\* Mutant: the rounded-up bin is not brought back.
FieldUnwrapped(x, zone) == Bin(x, zone)
Field(x, zone) == Bin(x, zone) % Bins

\* Mutant: the longitude zones are looked up at the true latitude.
RlatTrue(lat, odd) == lat

\* The latitude at which the encoder looks up the longitude zones.
Rlat(lat, odd) ==
  LET zone == Dlat(odd)
  IN  Field(lat, zone) * (zone \div Bins) + zone * (lat \div zone)

encode_airborne(p, odd) ==
  <<Field(p[1], Dlat(odd)),
    Field(p[2], Dlon(Rlat(p[1], odd), odd))>>

-----------------------------------------------------------------------------
(* Decoding a pair.                                                        *)

\* The zone index both formats agree on: how far the two fields, scaled to
\* each other's number of zones, are apart.
ZoneIndex(e, o, zones) ==
  (2 * (e * (zones - 1) - o * zones) + Bins) \div (2 * Bins)

\* A reconstructed latitude, the southern hemisphere below 0.
DecodedLat(even, odd, recent_odd) ==
  LET zones == 4 * NZ - Parity(recent_odd)
      yz == IF recent_odd THEN odd[1] ELSE even[1]
      rlat == Dlat(recent_odd) * (ZoneIndex(even[1], odd[1], 4 * NZ) % zones)
                + yz * (Dlat(recent_odd) \div Bins)
  IN  IF rlat >= 3 * Pole THEN rlat - LatCircle ELSE rlat

\* A reconstructed longitude, the western hemisphere below 0.
DecodedLon(even, odd, recent_odd, lat) ==
  LET ni == Nlon(lat, recent_odd)
      xz == IF recent_odd THEN odd[2] ELSE even[2]
      zone == Dlon(lat, recent_odd)
      lon == zone * (ZoneIndex(even[2], odd[2], nl(lat)) % ni) + xz * (zone \div Bins)
  IN  IF 2 * lon >= LonCircle THEN lon - LonCircle ELSE lon

PastPole(lats) == \E lat \in lats : Abs(lat) > Pole

\* Mutant: the two latitudes' zones are not compared.
StraddlesUnseen(lats) == FALSE
Straddles(lats) == Cardinality({nl(lat) : lat \in lats}) > 1

\* The position of the pair's odd or even frame, or nothing.
global_decode_airborne(even, odd, recent_odd) ==
  LET lats == {DecodedLat(even, odd, q) : q \in BOOLEAN}
      lat == DecodedLat(even, odd, recent_odd)
  IN  IF PastPole(lats) \/ Straddles(lats) THEN {}
      ELSE {<<lat, DecodedLon(even, odd, recent_odd, lat)>>}

\* The doubles it may return for the position p.
Doubles(p) == {<<p[1] + s, p[2] + t>> : s, t \in Slips}

-----------------------------------------------------------------------------
(* An aircraft, its frames, and the pairs a client sends.                  *)

Silent == [odd \in BOOLEAN |-> {}]
PairComplete == \A odd \in BOOLEAN : frame[odd] # {}

Init ==
  /\ pos \in (-Pole..Pole) \X StartLons
  /\ frame = Silent
  /\ at = [odd \in BOOLEAN |-> pos]
  /\ flown = "no"

\* The aircraft sends a frame of either format.
Squitter(odd) ==
  /\ frame[odd] = {}
  /\ frame' = [frame EXCEPT ![odd] = {encode_airborne(pos, odd)}]
  /\ at' = [at EXCEPT ![odd] = pos]
  /\ UNCHANGED <<pos, flown>>

\* It flies on between the two frames.
Fly(leg) ==
  /\ frame # Silent /\ ~PairComplete /\ flown = "no"
  /\ Abs(pos[1] + leg[1]) <= Pole
  /\ pos' = <<pos[1] + leg[1], (pos[2] + leg[2]) % LonCircle>>
  /\ flown' = "leg"
  /\ UNCHANGED <<frame, at>>

\* A client sends two frames that pass the CRC and that no single flight
\* explains: the server has nothing but the client's word for a pair.
Foreign ==
  /\ frame = Silent /\ pos = <<0, 0>>
  /\ \E even, odd \in Coords \X ForeignXz :
       frame' = [q \in BOOLEAN |-> {IF q THEN odd ELSE even}]
  /\ flown' = "foreign"
  /\ UNCHANGED <<pos, at>>

Next ==
  \/ \E odd \in BOOLEAN : Squitter(odd)
  \/ \E leg \in Legs : Fly(leg)
  \/ Foreign

Spec == Init /\ [][Next]_vars

-----------------------------------------------------------------------------
(* Properties.                                                             *)

Only(S) == CHOOSE x \in S : TRUE
Decoded(recent_odd) ==
  global_decode_airborne(Only(frame[FALSE]), Only(frame[TRUE]), recent_odd)

\* Every field fits its bits: encode_airborne's rounding up at the end of a
\* zone comes back to the first bin.
TypeOK ==
  /\ pos \in Positions
  /\ DOMAIN frame = BOOLEAN
  /\ \A odd \in BOOLEAN : frame[odd] \subseteq Frames /\ Cardinality(frame[odd]) <= 1
  /\ at \in [BOOLEAN -> Positions]
  /\ flown \in {"no", "leg", "foreign"}

\* The encoder rounded the latitude of p up into the next zone, but looks up
\* the longitude zones at the foot of its own (cpr.rs:58), and finds others.
InSliver(p, odd) ==
  LET foot == Rlat(p[1], odd)
  IN  Bin(p[1], Dlat(odd)) = Bins /\ nl(foot) # nl(foot + Dlat(odd))

\* What global_decode_airborne makes of any two frames that a client may send
\* is nothing, or a position on the globe from which encode_airborne gives
\* back the very frame, on whichever side of the bin the double comes out and
\* wherever the edges of the longitude zones are: the latitude always, and
\* the longitude unless the double slips below a foot into the encoder's
\* blind spot.
RoundTrips ==
  PairComplete =>
    \A odd \in BOOLEAN : \A p \in Decoded(odd) :
      /\ Abs(p[1]) <= Pole /\ 2 * p[2] \in (-LonCircle)..(LonCircle - 1)
      /\ \A d \in Doubles(p) :
           LET again == encode_airborne(d, odd)
           IN  /\ again[1] = Only(frame[odd])[1]
               /\ again[2] = Only(frame[odd])[2] \/ InSliver(d, odd)

\* Distance around a circle of longitude.
Around(a, b) == Min({(a - b) % LonCircle, (b - a) % LonCircle})

\* How far the aircraft flew between the two frames.
Flight == Abs(at[TRUE][1] - at[FALSE][1])
Drift == Around(at[FALSE][2], at[TRUE][2])

\* ZoneIndex bears a distance d between the frames, on a circle of units * Bins
\* in zones and zones - 1 zones, each frame rounded by half a bin: the two
\* fields stay within half of what tells two zone indices apart.
Bears(zones, units, d) == 2 * zones * (zones - 1) * d + (2 * zones - 1) * units <= units * Bins

\* An edge of the longitude zones, or a pole, is no further than the flight and
\* half a bin.
NearEdge(lat) ==
  \E edge \in {Edge[n] : n \in 2..NLMax} \cup {Pole} :
    2 * Bins * (Abs(Abs(lat) - edge) - Flight) <= Dlat(TRUE)

\* A pair of frames of one flight, no longer than the zone index bears, decodes
\* for each of its frames to where the aircraft was when it sent that frame, to
\* within half a bin, although it flew on between the two and the frames came in
\* either order; or to nothing, and then the aircraft is beside an edge of the
\* longitude zones or a pole (global_decode_airborne, State::on_sync).
Recovered ==
  PairComplete /\ flown # "foreign" /\ Bears(4 * NZ, 4 * NZ * NLMax, Flight) =>
    \A odd \in BOOLEAN :
      /\ Decoded(odd) = {} => NearEdge(at[odd][1])
      /\ \A p \in Decoded(odd) :
           /\ 2 * Bins * Abs(p[1] - at[odd][1]) <= Dlat(odd)
           /\ Bears(nl(p[1]), LonZones, Drift) /\ (\A q \in BOOLEAN : ~InSliver(at[q], q)) =>
                2 * Bins * Around(p[2], at[odd][2]) <= Dlon(p[1], odd)

=============================================================================
