------------------------------ MODULE NftProofs ------------------------------
(***************************************************************************)
(* Proofs about NftBackend, for addresses of any width, any prefixes,      *)
(* networks and bounds: types, what is banned stays shut out (InForce) and *)
(* what was let go does not come back (UnbanLifts).                        *)
(***************************************************************************)
EXTENDS NftBackend, TLAPS, FiniteSetTheorems

-----------------------------------------------------------------------------
(* Networks.                                                               *)

\* No host bits are set.
Fixed(n) == n = Trunc(n)

LEMMA Rounded ==
    ASSUME NEW a \in Nat, NEW m \in Nat \ {0}
    PROVE  /\ a % m \in 0 .. m - 1 /\ a % m <= a
           /\ a - (a % m) \in 0 .. a
           /\ (a - (a % m)) % m = 0
<1>1. a % m \in 0 .. m - 1 /\ a = m * (a \div m) + (a % m) /\ a \div m \in Nat
  OBVIOUS
<1> DEFINE r == a % m
           q == a \div m
<1>2. r \in 0 .. m - 1 /\ a = m * q + r /\ q \in Nat
  BY <1>1
<1> HIDE DEF r, q
<1>3. m * q \in Nat
  BY <1>2
<1>4. (m * q) % m = 0
  BY <1>2
<1>5. r <= a /\ a - r = m * q
  BY <1>2, <1>3
<1> QED
  BY <1>2, <1>3, <1>4, <1>5 DEF r

LEMMA TruncType ==
    ASSUME NEW n \in Nets
    PROVE  Trunc(n) \in Nets /\ Trunc(n)[2] = n[2] /\ Fixed(Trunc(n))
<1> DEFINE m == 2^(Width - n[2])
<1>1. n[1] \in Nat /\ n[1] <= 2^Width - 1 /\ n[2] \in 0 .. Width /\ 2^Width \in Nat
  BY NftAssumption DEF Nets, Addrs
<1>2. m \in Nat \ {0}
  <2>1. Width - n[2] \in 0 .. Width
    BY <1>1, NftAssumption
  <2> QED
    BY <2>1, NftAssumption
<1>3. Trunc(n) = <<n[1] - (n[1] % m), n[2]>>
  BY DEF Trunc
<1>4. n[1] - (n[1] % m) \in 0 .. n[1] /\ (n[1] - (n[1] % m)) % m = 0
  BY <1>1, <1>2, Rounded
<1>5. Trunc(Trunc(n)) = <<(n[1] - (n[1] % m)) - ((n[1] - (n[1] % m)) % m), n[2]>>
  BY <1>3 DEF Trunc
<1> HIDE DEF m
<1> DEFINE b == n[1] - (n[1] % m)
<1>6. b \in 0 .. n[1] /\ b % m = 0 /\ Trunc(n) = <<b, n[2]>> /\ Trunc(Trunc(n)) = <<b - (b % m), n[2]>>
  BY <1>3, <1>4, <1>5
<1> HIDE DEF b
<1>7. b \in Addrs /\ b - (b % m) = b
  BY <1>1, <1>6 DEF Addrs
<1> QED
  BY <1>1, <1>6, <1>7 DEF Nets, Fixed

LEMMA NetsFinite == IsFiniteSet(Nets) /\ \A ns \in SUBSET Nets : IsFiniteSet(ns)
<1>1. IsFiniteSet(0 .. 2^Width - 1) /\ IsFiniteSet(0 .. Width)
  <2>1. 2^Width \in Nat
    BY NftAssumption
  <2>2. 2^Width - 1 \in Int /\ Width \in Int
    BY <2>1, NftAssumption
  <2> QED
    BY <2>2, FS_Interval
<1>2. IsFiniteSet(Nets)
  BY <1>1, FS_Product DEF Nets, Addrs
<1> QED
  BY <1>2, FS_Subset

LEMMA HostType == \A a \in Addrs : Host(a) \in Nets
BY NftAssumption DEF Host, Nets

\* Where a network is put, and that no two get the same place.
LEMMA PlaceType ==
    ASSUME NEW n \in Nets
    PROVE  Place(n)[1] \in Sets /\ Place(n)[2] \in Nets /\ Place(n) = <<Place(n)[1], Place(n)[2]>>
<1>1. Trunc(n)[1] \in Addrs
  BY TruncType DEF Nets
<1>2. Place(n) = <<"ban6", Host(Trunc(n)[1])>> \/ Place(n) = <<"bannet6", n>>
  BY DEF Place
<1> QED
  BY <1>1, <1>2, HostType DEF Sets

LEMMA PlaceOwn ==
    ASSUME NEW m \in Nets, NEW n \in Nets, Fixed(m), Fixed(n), Place(m) = Place(n)
    PROVE  m = n
<1>1. CASE m[2] = prefix
  <2>1. n[2] = prefix /\ Trunc(m)[1] = Trunc(n)[1]
    BY <1>1 DEF Place, Host
  <2>2. m[1] = n[1] /\ m[2] = n[2]
    BY <1>1, <2>1 DEF Fixed
  <2> QED
    BY <2>2 DEF Nets
<1>2. CASE m[2] # prefix
  BY <1>2 DEF Place
<1> QED
  BY <1>1, <1>2

LEMMA PlaceFixed ==
    ASSUME NEW n \in Nets, Fixed(n), n[2] = prefix
    PROVE  Place(n) = <<"ban6", Host(n[1])>>
<1>1. Trunc(n)[1] = n[1]
  BY DEF Fixed
<1> QED
  BY <1>1 DEF Place

LEMMA OverlapsItself == \A n \in Nets : Overlap(n, n)
<1> TAKE n \in Nets
<1>1. n[2] >= n[2] /\ Trunc(<<n[1], n[2]>>) = Trunc(n)
  BY DEF Nets, Trunc
<1> QED
  BY <1>1 DEF Overlap, Covers

-----------------------------------------------------------------------------
(* The invariant.                                                          *)

Upper == now + MaxTtl

\* The kernel holds nothing past its end, and nothing for longer than a ban lasts.
Timely ==
    /\ \A s \in Sets, n \in Nets : elems[s][n] = 0 \/ (elems[s][n] > now /\ elems[s][n] <= Upper)
    /\ \A n \in Nets : asked[n] = 0 \/ asked[n] > now

\* Interval sets hold networks without host bits.  An older ban6 is alone.
Shapes ==
    /\ \A n \in Nets : elems["bannet6"][n] # 0 => Fixed(n)
    /\ kind = "none" => \A s \in Sets, n \in Nets : elems[s][n] = 0
    /\ kind = "interval" => \A n \in Nets : /\ elems["bannet6"][n] = 0
                                            /\ elems["ban6"][n] # 0 => Fixed(n)

\* The elements of the hash are on the boundary of the prefix.
Aligned == \A a \in Addrs : elems["ban6"][Host(a)] # 0 => Fixed(<<a, prefix>>)

\* Addresses of the hash that the prefix makes one of network `n`.
InHash(a, n) == elems["ban6"][Host(a)] # 0 /\ Trunc(<<a, prefix>>) = n

\* Whatever shuts out `n` ends no earlier than was asked, and something does.  A ban that
\* an earlier prefix put elsewhere may end earlier where this one has one of its own.
Held(n) ==
    IF kind = "hash" /\ n[2] = prefix
    THEN /\ \A a \in Addrs : InHash(a, n) => elems["ban6"][Host(a)] >= asked[n]
         /\ (\E a \in Addrs : InHash(a, n)) \/ elems["bannet6"][n] >= asked[n]
         /\ elems["bannet6"][n] # 0 =>
                elems["bannet6"][n] >= asked[n] \/ elems["ban6"][Host(n[1])] # 0
    ELSE elems[IF kind = "hash" THEN "bannet6" ELSE "ban6"][n] >= asked[n]
AskedHeld ==
    /\ \A n \in Nets \ lapsed : asked[n] # 0 => Held(n)
    /\ lapsed # {} => kind = "hash"

\* What was let go is in no set.
Gone(n) ==
    /\ elems["bannet6"][n] = 0
    /\ n[2] = prefix => \A a \in Addrs : ~InHash(a, n)
Lifts == (lifted # {} => kind = "hash") /\ \A n \in lifted : Gone(n)

World == Timely /\ Shapes /\ AskedHeld /\ Lifts

Stage ==
    /\ todo = "bannet6" => kind = "hash"
    /\ pc \in {"rekey", "move", "list", "repair", "up", "add"} => kind = "hash" /\ mask = prefix
    /\ running => pc \in {"list", "repair", "up", "add"}
    /\ pc \in {"list", "repair", "up", "add"} => Aligned
    /\ pc = "add" => next # <<>> /\ next[1] \notin lifted

\* What was read of a set still covers what is in it, and lasts as long as was asked,
\* unless the other set has a ban of the same network.  Nothing of it was let go.
Source == IF pc = "move" THEN "ban6" ELSE todo
EntryShape(e) == IF IsHash(Source) THEN e[2] = prefix ELSE Fixed(e)
EntryOK(e) ==
    LET n == Trunc(e)
    IN /\ n \notin lifted
       /\ asked[n] # 0 /\ n \notin lapsed =>
             /\ \/ now + listed[e] >= asked[n]
                \/ Source = "bannet6" /\ n[2] = prefix /\ elems["ban6"][Host(n[1])] # 0
             /\ IsHash(Source) => elems["ban6"][Host(e[1])] # 0
ReadOK ==
    pc \in {"recreate", "repair", "move"} =>
        /\ kind # "none"
        /\ \A n \in Nets : Listing(Source)[n] <= listed[n]
        /\ \A e \in Entries(listed) : EntryShape(e) /\ EntryOK(e)

NInv == TypeOK /\ World /\ Stage /\ ReadOK

-----------------------------------------------------------------------------
(* Listings, and what a script puts back.                                  *)

LEMMA Times ==
    ASSUME TypeOK
    PROVE  /\ now \in Nat /\ MaxTtl \in Nat /\ Upper \in Nat /\ now <= Upper
           /\ \A s \in Sets, n \in Nets : elems[s][n] \in Nat
           /\ \A n \in Nets : asked[n] \in Nat /\ listed[n] \in 0 .. MaxTtl
BY NftAssumption DEF TypeOK, Upper

\* What the listing says of a network.
LEMMA ListingIs ==
    ASSUME TypeOK, Timely, NEW s \in Sets, NEW n \in Nets
    PROVE  LET k == IF IsHash(s) THEN Host(n[1]) ELSE n
           IN  /\ k \in Nets
               /\ (IsHash(s) => n[2] = prefix) =>
                     IF elems[s][k] = 0 THEN Listing(s)[n] = 0
                     ELSE Listing(s)[n] = elems[s][k] - now /\ Listing(s)[n] > 0
               /\ ~(IsHash(s) => n[2] = prefix) => Listing(s)[n] = 0
               /\ Listing(s)[n] \in 0 .. MaxTtl
<1> DEFINE k == IF IsHash(s) THEN Host(n[1]) ELSE n
<1>1. k \in Nets
  BY HostType DEF Nets
<1>2. Listing(s)[n] = IF (IsHash(s) => n[2] = prefix) /\ elems[s][k] > now THEN elems[s][k] - now
                      ELSE 0
  BY DEF Listing
<1>3. /\ elems[s][k] \in Nat /\ now \in Nat /\ MaxTtl \in Nat
      /\ elems[s][k] = 0 \/ (elems[s][k] > now /\ elems[s][k] <= now + MaxTtl)
  BY <1>1, Times DEF Timely, Upper
<1> HIDE DEF k
<1>4. /\ (IsHash(s) => n[2] = prefix) =>
             IF elems[s][k] = 0 THEN Listing(s)[n] = 0
             ELSE Listing(s)[n] = elems[s][k] - now /\ Listing(s)[n] > 0
      /\ ~(IsHash(s) => n[2] = prefix) => Listing(s)[n] = 0
      /\ Listing(s)[n] \in 0 .. MaxTtl
  BY <1>2, <1>3
<1> QED
  BY <1>1, <1>4 DEF k

LEMMA ListingType ==
    ASSUME TypeOK, Timely, NEW s \in Sets
    PROVE  Listing(s) \in [Nets -> 0 .. MaxTtl]
<1>1. \A n \in Nets : Listing(s)[n] \in 0 .. MaxTtl
  BY ListingIs
<1>2. Listing(s) = [n \in Nets |-> Listing(s)[n]]
  BY DEF Listing
<1> QED
  BY <1>1, <1>2

\* Of the entries with one place exactly one is put back.
LEMMA FirstsOne ==
    ASSUME NEW ns \in SUBSET Nets, NEW f \in Firsts(ns), NEW n \in ns
    PROVE  \E m \in f : /\ Place(m) = Place(n)
                        /\ \A l \in f : Place(l) = Place(n) => l = m
<1> DEFINE S == {m \in f : Place(m) = Place(n)}
<1>1. Cardinality(S) = 1 /\ f \subseteq Nets
  BY DEF Firsts
<1>2. IsFiniteSet(S)
  <2>1. S \in SUBSET Nets
    BY <1>1
  <2> QED
    BY <2>1, NetsFinite
<1>3. PICK m : S = {m}
  <2> HIDE DEF S
  <2> QED
    BY <1>1, <1>2, FS_Singleton
<1> QED
  BY <1>3

LEMMA FirstsSub == ASSUME NEW ns, NEW f \in Firsts(ns) PROVE f \subseteq ns
BY DEF Firsts

\* An element is as it was, or one of those put back.
LEMMA AddedIs ==
    ASSUME TypeOK, NEW es \in [Sets -> [Nets -> Nat]], NEW ns \in SUBSET Nets, NEW f \in Firsts(ns)
    PROVE  /\ Added(es, f) \in [Sets -> [Nets -> Nat]]
           /\ \A s \in Sets, k \in Nets :
                 \/ Added(es, f)[s][k] = es[s][k] /\ ~\E n \in f : Place(n) = <<s, k>>
                 \/ \E n \in f : Place(n) = <<s, k>> /\ Added(es, f)[s][k] = now + listed[n]
           /\ \A n \in ns : \E m \in f :
                 Place(m) = Place(n) /\ Added(es, f)[Place(n)[1]][Place(n)[2]] = now + listed[m]
<1> DEFINE A == Added(es, f)
           Val(s, k) == IF \E n \in f : Place(n) = <<s, k>>
                        THEN now + listed[CHOOSE n \in f : Place(n) = <<s, k>>]
                        ELSE es[s][k]
<1>0. f \subseteq ns /\ f \subseteq Nets
  BY FirstsSub
<1>1. A = [s \in Sets |-> [k \in Nets |-> Val(s, k)]]
  BY DEF Added
<1> HIDE DEF A
<1>2. ASSUME NEW s \in Sets, NEW k \in Nets
      PROVE  /\ \/ Val(s, k) = es[s][k] /\ ~\E n \in f : Place(n) = <<s, k>>
                \/ \E n \in f : Place(n) = <<s, k>> /\ Val(s, k) = now + listed[n]
             /\ Val(s, k) \in Nat
  <2>1. CASE ~\E n \in f : Place(n) = <<s, k>>
    BY <2>1
  <2>2. CASE \E n \in f : Place(n) = <<s, k>>
    <3> DEFINE c == CHOOSE n \in f : Place(n) = <<s, k>>
    <3>1. c \in f /\ Place(c) = <<s, k>> /\ Val(s, k) = now + listed[c]
      BY <2>2
    <3>2. now + listed[c] \in Nat
      BY <1>0, <3>1, Times
    <3> HIDE DEF c
    <3> QED
      BY <3>1, <3>2
  <2> QED
    BY <2>1, <2>2
<1>3. A \in [Sets -> [Nets -> Nat]] /\ \A s \in Sets, k \in Nets : A[s][k] = Val(s, k)
  BY <1>1, <1>2
<1> HIDE DEF Val
<1>4. ASSUME NEW n \in ns
      PROVE  \E m \in f : Place(m) = Place(n) /\ A[Place(n)[1]][Place(n)[2]] = now + listed[m]
  <2>1. /\ Place(n)[1] \in Sets /\ Place(n)[2] \in Nets
        /\ Place(n) = <<Place(n)[1], Place(n)[2]>>
    BY PlaceType
  <2>2. PICK m \in f : Place(m) = Place(n)
    BY FirstsOne
  <2>3. PICK l \in f : /\ Place(l) = <<Place(n)[1], Place(n)[2]>>
                       /\ Val(Place(n)[1], Place(n)[2]) = now + listed[l]
    BY <1>2, <2>1, <2>2
  <2> QED
    BY <1>3, <2>1, <2>3
<1> QED
  BY <1>2, <1>3, <1>4 DEF A

\* Nothing is put where something is.
LEMMA FitsFree ==
    ASSUME NEW es \in [Sets -> [Nets -> Nat]], NEW ns \in SUBSET Nets, Fits(es, ns), NEW n \in ns
    PROVE  es[Place(n)[1]][Place(n)[2]] = 0
<1>1. Place(n)[1] \in Sets /\ Place(n)[2] \in Nets
  BY PlaceType
<1>2. ~(es[Place(n)[1]][Place(n)[2]] > 0)
  BY <1>1, OverlapsItself DEF Fits
<1> QED
  BY <1>1, <1>2

\* A script's additions: all the rest stays.
LEMMA AddedKeeps ==
    ASSUME TypeOK, NEW es \in [Sets -> [Nets -> Nat]], NEW ns \in SUBSET Nets, NEW f \in Firsts(ns),
           Fits(es, f), NEW s \in Sets, NEW k \in Nets
    PROVE  \/ Added(es, f)[s][k] = es[s][k]
           \/ es[s][k] = 0 /\ \E n \in f : /\ Place(n) = <<s, k>>
                                           /\ Added(es, f)[s][k] = now + listed[n]
<1>1. CASE Added(es, f)[s][k] # es[s][k]
  <2>1. PICK n \in f : Place(n) = <<s, k>> /\ Added(es, f)[s][k] = now + listed[n]
    BY <1>1, AddedIs
  <2>2. f \in SUBSET Nets
    BY FirstsSub
  <2>3. es[s][k] = 0
    BY <2>1, <2>2, FitsFree
  <2> QED
    BY <2>1, <2>3
<1> QED
  BY <1>1

-----------------------------------------------------------------------------
(* Listings of what was let go, and of what is to be put back.             *)

LEMMA AskedFixed ==
    ASSUME NEW n \in BanNets
    PROVE  n \in Nets /\ Fixed(n)
BY NftAssumption DEF Fixed

\* What an element of the hash, and a network on the boundary, stand for.
LEMMA Keys ==
    ASSUME NEW n \in Nets, n[2] = prefix
    PROVE  /\ n[1] \in Addrs /\ n = <<n[1], prefix>> /\ Trunc(<<n[1], prefix>>) = Trunc(n)
           /\ \A a \in Addrs : Host(a) = Host(n[1]) => a = n[1]
<1>1. n[1] \in Addrs /\ n = <<n[1], prefix>>
  BY DEF Nets
<1>2. Trunc(<<n[1], prefix>>) = Trunc(n)
  BY <1>1
<1> QED
  BY <1>1, <1>2 DEF Host

\* What was let go is not listed.
LEMMA Unlisted ==
    ASSUME TypeOK, World, NEW s \in Sets, NEW n \in lifted
    PROVE  Listing(s)[n] = 0
<1>0. n \in Nets /\ Fixed(n) /\ Timely /\ kind = "hash" /\ Gone(n)
  BY AskedFixed DEF TypeOK, World, Lifts
<1>1. CASE s = "bannet6"
  BY <1>0, <1>1, ListingIs DEF IsHash, Gone
<1>2. CASE s = "ban6" /\ n[2] = prefix
  <2>1. ~InHash(n[1], n) /\ Trunc(<<n[1], prefix>>) = n
    BY <1>0, <1>2, Keys DEF Gone, Fixed
  <2>2. elems["ban6"][Host(n[1])] = 0
    BY <2>1 DEF InHash
  <2> QED
    BY <1>0, <1>2, <2>2, ListingIs DEF IsHash
<1>3. CASE s = "ban6" /\ n[2] # prefix
  BY <1>0, <1>3, ListingIs DEF IsHash
<1> QED
  BY <1>1, <1>2, <1>3 DEF Sets

\* What a listing gives can be put back, and is not of what was let go.
LEMMA ListingOK ==
    ASSUME TypeOK, World, NEW s \in Sets, kind # "none", NEW e \in Entries(Listing(s))
    PROVE  /\ e \in Nets
           /\ IF IsHash(s) THEN e[2] = prefix /\ elems["ban6"][Host(e[1])] # 0 ELSE Fixed(e)
           /\ Trunc(e) \notin lifted
           /\ asked[Trunc(e)] # 0 /\ Trunc(e) \notin lapsed =>
                 \/ now + Listing(s)[e] >= asked[Trunc(e)]
                 \/ s = "bannet6" /\ Trunc(e)[2] = prefix /\ elems["ban6"][Host(Trunc(e)[1])] # 0
<1>0. /\ Timely /\ Shapes /\ AskedHeld /\ Lifts /\ now \in Nat
      /\ "ban6" \in Sets /\ "bannet6" \in Sets
  BY DEF World, TypeOK, Sets
<1>1. e \in Nets /\ Listing(s)[e] > 0 /\ Trunc(e) \in Nets /\ Trunc(e)[2] = e[2]
  <2>1. e \in Nets /\ Listing(s)[e] > 0
    BY DEF Entries
  <2> QED
    BY <2>1, TruncType
<1> DEFINE n == Trunc(e)
<1>2. CASE IsHash(s)
  <2>1. /\ s = "ban6" /\ kind = "hash" /\ e[2] = prefix /\ elems["ban6"][Host(e[1])] # 0
        /\ Listing(s)[e] = elems["ban6"][Host(e[1])] - now
        /\ elems["ban6"][Host(e[1])] \in Nat
    <3>1. s = "ban6" /\ kind = "hash" /\ e[2] = prefix
      BY <1>0, <1>1, <1>2, ListingIs DEF IsHash
    <3>2. Host(e[1]) \in Nets
      BY <1>1, HostType DEF Nets
    <3> QED
      BY <1>0, <1>1, <1>2, <3>1, <3>2, ListingIs, Times
  <2>2. e[1] \in Addrs /\ InHash(e[1], n) /\ n[2] = prefix
    BY <1>1, <2>1, Keys DEF InHash
  <2>3. n \notin lifted
    BY <1>0, <2>2 DEF Lifts, Gone
  <2>4. ASSUME asked[n] # 0, n \notin lapsed PROVE now + Listing(s)[e] >= asked[n]
    <3>1. elems["ban6"][Host(e[1])] >= asked[n]
      BY <1>0, <1>1, <2>1, <2>2, <2>4 DEF AskedHeld, Held
    <3> QED
      BY <1>0, <2>1, <3>1
  <2> QED
    BY <1>1, <1>2, <2>1, <2>3, <2>4
<1>3. CASE ~IsHash(s)
  <2>1. elems[s][e] # 0 /\ Listing(s)[e] = elems[s][e] - now /\ elems[s][e] \in Nat
    BY <1>0, <1>1, <1>3, ListingIs, Times
  <2>2. Fixed(e)
    BY <1>0, <1>1, <1>3, <2>1 DEF Shapes, IsHash, Sets, TypeOK
  <2>3. n = e /\ (s = "bannet6" => kind = "hash") /\ (s = "ban6" => kind # "hash")
    BY <1>0, <1>1, <1>3, <2>1, <2>2 DEF Fixed, Shapes, IsHash, TypeOK
  <2>4. n \notin lifted
    BY <1>0, <2>1, <2>3 DEF Lifts, Gone, Sets
  <2>5. ASSUME asked[n] # 0, n \notin lapsed
        PROVE  \/ now + Listing(s)[e] >= asked[n]
               \/ s = "bannet6" /\ n[2] = prefix /\ elems["ban6"][Host(n[1])] # 0
    <3>1. Held(e) /\ asked[e] \in Nat
      BY <1>0, <1>1, <2>3, <2>5, Times DEF AskedHeld
    <3>2. \/ elems[s][e] >= asked[e]
          \/ s = "bannet6" /\ e[2] = prefix /\ elems["ban6"][Host(e[1])] # 0
      BY <2>1, <2>3, <3>1 DEF Held, Sets
    <3> QED
      BY <1>0, <2>1, <2>3, <3>1, <3>2
  <2> QED
    BY <1>1, <1>3, <2>2, <2>4, <2>5
<1> QED
  BY <1>2, <1>3

-----------------------------------------------------------------------------
(* The world, step by step.                                                *)

LEMMA WorldSame ==
    ASSUME World, UNCHANGED <<kind, elems, now, prefix, asked, lapsed, lifted>>
    PROVE  World' /\ (Aligned => Aligned')
<1>1. Timely' /\ Shapes' /\ (Aligned => Aligned')
  BY DEF World, Timely, Shapes, Upper, Aligned, Host, Fixed, Trunc
<1>2. \A n : (Held(n) => Held(n)') /\ (Gone(n) => Gone(n)')
  BY DEF Held, Gone, InHash, Host, Trunc
<1>3. AskedHeld' /\ Lifts'
  BY <1>2 DEF World, AskedHeld, Lifts
<1> QED
  BY <1>1, <1>3 DEF World

\* Setup makes the sets that are not there.
LEMMA WorldMade ==
    ASSUME TypeOK, World, kind # "interval", kind' = "hash",
           UNCHANGED <<elems, now, prefix, asked, lapsed, lifted>>
    PROVE  World' /\ (Aligned => Aligned')
<1>1. CASE kind = "hash"
  BY <1>1, WorldSame
<1>2. CASE kind # "hash"
  <2>0. kind = "none"
    BY <1>2 DEF TypeOK
  <2>1. \A s \in Sets, n \in Nets : elems[s][n] = 0
    BY <2>0 DEF World, Shapes
  <2>2. Timely' /\ Shapes'
    BY <2>1 DEF World, Timely, Shapes, Sets, Upper
  <2>3. Aligned'
    BY <2>1, HostType DEF Aligned, Sets
  <2>4. lapsed = {} /\ lifted = {}
    BY <2>0 DEF World, AskedHeld, Lifts
  <2>5. \A n \in Nets : asked[n] = 0
    <3> TAKE n \in Nets
    <3>1. asked[n] # 0 => 0 >= asked[n]
      BY <2>0, <2>1, <2>4 DEF World, AskedHeld, Held, Sets
    <3> QED
      BY <3>1, Times
  <2>6. AskedHeld' /\ Lifts'
    BY <2>4, <2>5 DEF AskedHeld, Lifts
  <2> QED
    BY <2>2, <2>3, <2>6 DEF World
<1> QED
  BY <1>1, <1>2

\* The first of several to end.
LEMMA SoonestIs ==
    ASSUME NEW ends
    PROVE  \/ Soonest(ends) = 0
           \/ Soonest(ends) \in ends /\ Soonest(ends) > now
              /\ \A f \in ends : f > now => Soonest(ends) <= f
<1> DEFINE first == {e \in ends : e > now /\ \A f \in ends : f > now => e <= f}
<1>1. Soonest(ends) = IF first = {} THEN 0 ELSE CHOOSE e \in first : TRUE
  BY DEF Soonest
<1>2. first # {} => Soonest(ends) \in first
  BY <1>1
<1> QED
  BY <1>1, <1>2

LEMMA StartSaid ==
    ASSUME TypeOK, Start, kind = "hash", prefix' # prefix
    PROVE  /\ asked' \in [Nets -> Nat]
           /\ \A n \in Nets : n[2] \notin {prefix, prefix'} => asked'[n] = asked[n]
           /\ \A n \in Nets : n[2] \in {prefix, prefix'} => asked'[n] = Soonest(EndsWithin(n, prefix'))
           /\ lapsed' = {n \in lapsed : n[2] \notin {prefix, prefix'}}
           /\ lifted' = {n \in lifted : n[2] # prefix'}
<1>1. /\ asked' = [n \in Nets |-> IF n[2] \in {prefix, prefix'}
                                 THEN Soonest(EndsWithin(n, prefix')) ELSE asked[n]]
      /\ lapsed' = {n \in lapsed : n[2] \notin {prefix, prefix'}}
      /\ lifted' = {n \in lifted : n[2] # prefix'}
  BY DEF Start
<1>2. ASSUME NEW n \in Nets PROVE Soonest(EndsWithin(n, prefix')) \in Nat
  <2>1. EndsWithin(n, prefix') \subseteq Nat
    BY Times, HostType DEF EndsWithin, Sets
  <2> QED
    BY <2>1, SoonestIs
<1>3. asked \in [Nets -> Nat]
  BY DEF TypeOK
<1> QED
  BY <1>1, <1>2, <1>3

\* A change of the prefix.
LEMMA WorldStart ==
    ASSUME TypeOK, World, Start
    PROVE  World'
<1>0. UNCHANGED <<kind, elems, now>>
  BY DEF Start, kernel, world
<1>1. CASE kind # "hash"
  <2>1. UNCHANGED <<asked, lapsed, lifted>>
    BY <1>1 DEF Start, said
  <2>2. Timely' /\ Shapes'
    BY <1>0, <2>1 DEF World, Timely, Shapes, Upper, Fixed, Trunc
  <2>3. \A n \in Nets : Held(n) => Held(n)'
    BY <1>0, <1>1, <2>1 DEF Held
  <2>4. AskedHeld' /\ Lifts'
    BY <1>0, <1>1, <2>1, <2>3 DEF World, AskedHeld, Lifts
  <2> QED
    BY <2>2, <2>4 DEF World
<1>2. CASE prefix' = prefix
  <2>1. UNCHANGED <<asked, lapsed, lifted>>
    BY <1>2 DEF Start, said
  <2> QED
    BY <1>0, <1>2, <2>1, WorldSame
<1>3. CASE kind = "hash" /\ prefix' # prefix
  <2>0. /\ Timely /\ Shapes /\ AskedHeld /\ Lifts /\ now \in Nat
        /\ "ban6" \in Sets /\ "bannet6" \in Sets
    BY DEF World, TypeOK, Sets
  <2>1. /\ asked' \in [Nets -> Nat]
        /\ \A n \in Nets : n[2] \notin {prefix, prefix'} => asked'[n] = asked[n]
        /\ \A n \in Nets : n[2] \in {prefix, prefix'} => asked'[n] = Soonest(EndsWithin(n, prefix'))
        /\ lapsed' = {n \in lapsed : n[2] \notin {prefix, prefix'}}
        /\ lifted' = {n \in lifted : n[2] # prefix'}
    BY <1>3, StartSaid
  <2>2. \A s \in Sets, n \in Nets : elems[s][n] \in Nat /\ (elems[s][n] # 0 => elems[s][n] > now)
    BY <2>0, Times DEF Timely
  <2>3. Timely'
    <3>1. \A n \in Nets : asked'[n] = 0 \/ asked'[n] > now
      BY <2>0, <2>1, SoonestIs DEF Timely
    <3> QED
      BY <1>0, <2>0, <3>1 DEF Timely, Upper
  <2>4. Shapes'
    BY <1>0, <2>0 DEF Shapes, Fixed, Trunc
  <2>5. ASSUME NEW n \in Nets, n \notin lapsed', asked'[n] # 0
        PROVE  Held(n)'
    <3>1. CASE n[2] \notin {prefix, prefix'}
      <4>1. n \notin lapsed /\ asked[n] # 0 /\ asked'[n] = asked[n]
        BY <2>1, <2>5, <3>1
      <4>2. elems["bannet6"][n] >= asked[n]
        BY <1>3, <2>0, <3>1, <4>1 DEF AskedHeld, Held
      <4> QED
        BY <1>0, <1>3, <3>1, <4>1, <4>2 DEF Held
    <3>2. CASE n[2] \in {prefix, prefix'}
      <4> DEFINE E == EndsWithin(n, prefix')
      <4>1. asked'[n] = Soonest(E) /\ Soonest(E) \in E /\ \A f \in E : f > now => Soonest(E) <= f
        BY <2>1, <2>5, <3>2, SoonestIs
      <4>2. E = {elems["bannet6"][n]} \cup
                {elems["ban6"][Host(a)] : a \in {b \in Addrs : n[2] = prefix' /\ Trunc(<<b, prefix'>>) = n}}
        BY DEF EndsWithin
      <4> HIDE DEF E
      <4>3. CASE n[2] # prefix'
        <5>1. asked'[n] = elems["bannet6"][n]
          BY <4>1, <4>2, <4>3
        <5> QED
          BY <1>0, <1>3, <2>2, <4>3, <5>1, <2>0 DEF Held
      <4>4. CASE n[2] = prefix'
        <5>1. ASSUME NEW a \in Addrs, elems["ban6"][Host(a)] # 0, Trunc(<<a, prefix'>>) = n
              PROVE  elems["ban6"][Host(a)] >= asked'[n]
          <6>1. elems["ban6"][Host(a)] \in E
            BY <4>2, <4>4, <5>1
          <6>2. Host(a) \in Nets
            BY HostType
          <6>3. elems["ban6"][Host(a)] > now /\ elems["ban6"][Host(a)] \in Nat
            BY <2>0, <2>2, <5>1, <6>2
          <6>4. asked'[n] <= elems["ban6"][Host(a)] /\ asked'[n] \in Nat
            BY <2>1, <4>1, <6>1, <6>3
          <6> QED
            BY <6>3, <6>4
        <5>2. elems["bannet6"][n] # 0 => elems["bannet6"][n] >= asked'[n]
          <6>1. elems["bannet6"][n] \in E
            BY <4>2
          <6> QED
            BY <2>0, <2>1, <2>2, <4>1, <6>1
        <5>3. \/ \E a \in Addrs : elems["ban6"][Host(a)] # 0 /\ Trunc(<<a, prefix'>>) = n
              \/ elems["bannet6"][n] >= asked'[n]
          <6>1. CASE asked'[n] = elems["bannet6"][n]
            BY <2>0, <2>2, <6>1
          <6>2. CASE \E a \in Addrs : Trunc(<<a, prefix'>>) = n /\ asked'[n] = elems["ban6"][Host(a)]
            BY <2>5, <6>2
          <6> QED
            BY <4>1, <4>2, <6>1, <6>2
        <5>4. \A a \in Addrs : InHash(a, n)' <=> elems["ban6"][Host(a)] # 0 /\ Trunc(<<a, prefix'>>) = n
          BY <1>0 DEF InHash, Host, Trunc
        <5> QED
          BY <1>0, <1>3, <4>4, <5>1, <5>2, <5>3, <5>4 DEF Held, Host
      <4> QED
        BY <4>3, <4>4
    <3> QED
      BY <3>1, <3>2
  <2>6. AskedHeld'
    BY <1>0, <1>3, <2>5 DEF AskedHeld
  <2>7. Lifts'
    BY <1>0, <1>3, <2>0, <2>1 DEF Lifts, Gone
  <2> QED
    BY <2>3, <2>4, <2>6, <2>7 DEF World
<1> QED
  BY <1>1, <1>2, <1>3

\* Where the entries of a listing are put.
LEMMA EntryPlace ==
    ASSUME NEW n \in Nets, n[2] = prefix \/ Fixed(n)
    PROVE  /\ \A a \in Addrs : Place(n) = <<"ban6", Host(a)>> =>
                  Trunc(n) = <<a, prefix>> /\ Fixed(<<a, prefix>>)
           /\ \A k \in Nets : Place(n) = <<"bannet6", k>> => n = k /\ n[2] # prefix /\ Fixed(n)
<1>1. Trunc(n)[2] = n[2] /\ Fixed(Trunc(n)) /\ Trunc(n) \in Nets
  BY TruncType
<1>2. ASSUME NEW a \in Addrs, Place(n) = <<"ban6", Host(a)>>
      PROVE  Trunc(n) = <<a, prefix>> /\ Fixed(<<a, prefix>>)
  <2>1. n[2] = prefix /\ Host(Trunc(n)[1]) = Host(a)
    BY <1>2 DEF Place
  <2>2. Trunc(n)[1] = a
    BY <2>1 DEF Host
  <2>3. Trunc(n) = <<a, prefix>>
    BY <1>1, <2>1, <2>2 DEF Nets
  <2> QED
    BY <1>1, <2>3
<1>3. ASSUME NEW k \in Nets, Place(n) = <<"bannet6", k>> PROVE n = k /\ n[2] # prefix /\ Fixed(n)
  BY <1>3 DEF Place
<1> QED
  BY <1>2, <1>3

\* What a script puts back of the hash's elements, in place of those of `n`.
LEMMA PutBack ==
    ASSUME TypeOK, World, ReadOK, pc \in {"recreate", "repair", "move"},
           NEW n \in Nets, asked[n] # 0, n \notin lapsed,
           NEW l \in Entries(listed), NEW a \in Addrs,
           Place(l) = <<"ban6", Host(a)>>, Trunc(<<a, prefix>>) = n
    PROVE  /\ n[1] = a /\ n[2] = prefix
           /\ \/ now + listed[l] >= asked[n]
              \/ Source = "bannet6" /\ elems["ban6"][Host(a)] # 0
<1>1. l \in Nets /\ (l[2] = prefix \/ Fixed(l)) /\ EntryOK(l)
  BY DEF ReadOK, EntryShape, Entries
<1>2. Trunc(l) = <<a, prefix>> /\ n = <<a, prefix>>
  BY <1>1, EntryPlace DEF Fixed
<1> QED
  BY <1>1, <1>2 DEF EntryOK

\* None of what was let go is put back.
LEMMA NotPutBack ==
    ASSUME TypeOK, ReadOK, pc \in {"recreate", "repair", "move"}, NEW n \in lifted,
           NEW l \in Entries(listed)
    PROVE  /\ \A a \in Addrs : Trunc(<<a, prefix>>) = n => Place(l) # <<"ban6", Host(a)>>
           /\ Place(l) # <<"bannet6", n>>
<1>1. l \in Nets /\ (l[2] = prefix \/ Fixed(l)) /\ Trunc(l) # n /\ n \in Nets
  BY NftAssumption DEF ReadOK, EntryShape, EntryOK, Entries, TypeOK
<1>2. ASSUME NEW a \in Addrs, Trunc(<<a, prefix>>) = n, Place(l) = <<"ban6", Host(a)>>
      PROVE  FALSE
  BY <1>1, <1>2, EntryPlace DEF Fixed
<1>3. ASSUME Place(l) = <<"bannet6", n>> PROVE FALSE
  BY <1>1, <1>3, EntryPlace DEF Fixed
<1> QED
  BY <1>2, <1>3

\* An element of a set that is read stays among what was read for as long as was asked.
LEMMA Covered ==
    ASSUME TypeOK, World, ReadOK, pc \in {"recreate", "repair", "move"}, ~IsHash(Source),
           Source \in Sets, NEW n \in Nets, elems[Source][n] # 0, elems[Source][n] >= asked[n]
    PROVE  listed[n] > 0 /\ now + listed[n] >= asked[n]
<1>1. /\ Listing(Source)[n] = elems[Source][n] - now /\ Listing(Source)[n] > 0
      /\ Listing(Source)[n] <= listed[n]
  BY ListingIs DEF World, ReadOK
<1>2. elems[Source][n] \in Nat /\ now \in Nat /\ asked[n] \in Nat /\ listed[n] \in Nat
  BY Times
<1> QED
  BY <1>1, <1>2

\* A set made anew holds what was asked for, and none of what was let go.
LEMMA WorldRecreated ==
    ASSUME TypeOK, World, Stage, ReadOK, pc \in {"recreate", "repair"}, NEW m, Recreated(todo, m),
           UNCHANGED <<now, prefix, asked, lapsed, lifted>>
    PROVE  World' /\ kind' = "hash" /\ (todo = "ban6" \/ Aligned => Aligned')
<1> DEFINE es == Emptied(todo)
           ns == Entries(listed)
<1>1. PICK f \in Firsts(ns) : /\ Fits(es, f)
                              /\ elems' = Added(es, f)
                              /\ kind' = IF todo = "ban6" THEN "hash" ELSE kind
  BY DEF Recreated
<1>2. /\ todo \in Sets /\ now \in Nat /\ ns \in SUBSET Nets /\ f \subseteq ns
      /\ Timely /\ Shapes /\ AskedHeld /\ Lifts
  BY <1>1, FirstsSub DEF TypeOK, World, Entries
<1>3. kind' = "hash"
  BY <1>1, <1>2 DEF Stage, Sets
<1>4. /\ es \in [Sets -> [Nets -> Nat]]
      /\ \A s \in Sets, k \in Nets : es[s][k] = IF s = todo THEN 0 ELSE elems[s][k]
  BY <1>2 DEF TypeOK, Emptied, None
<1> HIDE DEF es
<1>5. ASSUME NEW n \in ns
      PROVE  /\ n \in Nets /\ listed[n] \in 1 .. MaxTtl
             /\ IF IsHash(todo) THEN n[2] = prefix ELSE Fixed(n)
  <2>1. n \in Nets /\ listed[n] > 0
    BY DEF Entries
  <2>2. listed[n] \in 1 .. MaxTtl
    BY <2>1, Times
  <2>3. IF IsHash(todo) THEN n[2] = prefix ELSE Fixed(n)
    BY DEF ReadOK, Source, EntryShape
  <2> QED
    BY <2>1, <2>2, <2>3
\* An element is as it was, in the other set, or one of those put back.
<1>6. ASSUME NEW s \in Sets, NEW k \in Nets
      PROVE  \/ elems'[s][k] = 0
             \/ elems'[s][k] = elems[s][k] /\ s # todo
             \/ \E n \in f : Place(n) = <<s, k>> /\ elems'[s][k] = now + listed[n]
  BY <1>1, <1>2, <1>4, AddedKeeps
<1>7. Timely'
  <2>1. ASSUME NEW s \in Sets, NEW k \in Nets
        PROVE  elems'[s][k] = 0 \/ (elems'[s][k] > now /\ elems'[s][k] <= now + MaxTtl)
    <3>1. elems[s][k] = 0 \/ (elems[s][k] > now /\ elems[s][k] <= now + MaxTtl)
      BY <1>2 DEF Timely, Upper
    <3>2. ASSUME NEW n \in f, elems'[s][k] = now + listed[n]
          PROVE  elems'[s][k] > now /\ elems'[s][k] <= now + MaxTtl
      <4>1. listed[n] \in 1 .. MaxTtl /\ MaxTtl \in Nat
        BY <1>2, <1>5, Times
      <4> QED
        BY <1>2, <3>2, <4>1
    <3> QED
      BY <1>6, <3>1, <3>2
  <2> QED
    BY <1>2, <2>1 DEF Timely, Upper
<1>8. ASSUME NEW k \in Nets, elems'["bannet6"][k] # 0
      PROVE  elems["bannet6"][k] # 0 \/ (k[2] # prefix /\ Fixed(k))
  <2>1. "bannet6" \in Sets
    BY DEF Sets
  <2>2. ASSUME NEW n \in f, Place(n) = <<"bannet6", k>> PROVE k[2] # prefix /\ Fixed(k)
    BY <1>2, <1>5, <2>2, EntryPlace
  <2> QED
    BY <1>6, <1>8, <2>1, <2>2
<1>9. Shapes'
  BY <1>2, <1>3, <1>8 DEF Shapes
<1>10. (todo = "ban6" \/ Aligned) => Aligned'
  <2>1. SUFFICES ASSUME todo = "ban6" \/ Aligned, NEW a \in Addrs, elems'["ban6"][Host(a)] # 0
                 PROVE  Fixed(<<a, prefix>>)
    BY DEF Aligned, Fixed, Trunc, Host
  <2>2. Host(a) \in Nets /\ "ban6" \in Sets
    BY HostType DEF Sets
  <2>3. ASSUME elems["ban6"][Host(a)] # 0, todo # "ban6" PROVE Fixed(<<a, prefix>>)
    BY <2>1, <2>3 DEF Aligned
  <2>4. ASSUME NEW n \in f, Place(n) = <<"ban6", Host(a)>> PROVE Fixed(<<a, prefix>>)
    BY <1>2, <1>5, <2>4, EntryPlace
  <2> QED
    BY <1>6, <2>1, <2>2, <2>3, <2>4
<1>11. ASSUME NEW n \in Nets, asked[n] # 0, n \notin lapsed
       PROVE  Held(n)'
  <2>0. /\ Held(n) /\ asked[n] \in Nat /\ asked[n] > now /\ "ban6" \in Sets /\ "bannet6" \in Sets
        /\ Source = todo
    BY <1>2, <1>11, Times DEF AskedHeld, Timely, Sets, Source
  <2>1. \A a \in Addrs : InHash(a, n)' <=> elems'["ban6"][Host(a)] # 0 /\ Trunc(<<a, prefix>>) = n
    BY DEF InHash, Host, Trunc
  \* Of what is listed under one place one entry is there afterwards.
  <2>2. ASSUME NEW e \in ns, NEW k \in Nets, Place(e) = <<"ban6", k>>
        PROVE  elems'["ban6"][k] # 0
    <3>1. PICK l \in f : Place(l) = Place(e)
                         /\ Added(es, f)[Place(e)[1]][Place(e)[2]] = now + listed[l]
      BY <1>1, <1>2, <1>4, AddedIs
    <3>2. listed[l] \in 1 .. MaxTtl /\ MaxTtl \in Nat
      BY <1>2, <1>5, <3>1, Times
    <3>3. elems'["ban6"][k] = now + listed[l]
      BY <1>1, <2>2, <3>1
    <3> QED
      BY <1>2, <3>2, <3>3
  <2>3. ASSUME NEW a \in Addrs, InHash(a, n)'
        PROVE  elems'["ban6"][Host(a)] >= asked[n]
    <3>1. Host(a) \in Nets /\ elems'["ban6"][Host(a)] # 0 /\ Trunc(<<a, prefix>>) = n
      BY <2>1, <2>3, HostType
    <3>2. CASE elems'["ban6"][Host(a)] = elems["ban6"][Host(a)] /\ "ban6" # todo
      <4>1. kind = "hash" /\ n[2] = prefix /\ InHash(a, n)
        BY <1>2, <3>1, <3>2 DEF Stage, Sets, InHash, Trunc
      <4> QED
        BY <2>0, <3>2, <4>1 DEF Held
    <3>3. ASSUME NEW l \in f, Place(l) = <<"ban6", Host(a)>>, elems'["ban6"][Host(a)] = now + listed[l],
                 es["ban6"][Host(a)] = 0
          PROVE  elems'["ban6"][Host(a)] >= asked[n]
      <4>1. l \in Entries(listed)
        BY <1>2
      <4>2. now + listed[l] >= asked[n] \/ (todo = "bannet6" /\ elems["ban6"][Host(a)] # 0)
        BY <1>11, <2>0, <3>1, <3>3, <4>1, PutBack
      <4>3. todo = "bannet6" => es["ban6"][Host(a)] = elems["ban6"][Host(a)]
        BY <1>4, <2>0, <3>1
      <4> QED
        BY <3>3, <4>2, <4>3
    <3>4. \/ elems'["ban6"][Host(a)] = es["ban6"][Host(a)]
          \/ es["ban6"][Host(a)] = 0 /\ \E l \in f : /\ Place(l) = <<"ban6", Host(a)>>
                                                     /\ elems'["ban6"][Host(a)] = now + listed[l]
      BY <1>1, <1>2, <1>4, <2>0, <3>1, AddedKeeps
    <3>5. es["ban6"][Host(a)] # 0 => "ban6" # todo /\ es["ban6"][Host(a)] = elems["ban6"][Host(a)]
      BY <1>4, <2>0, <3>1
    <3> QED
      BY <3>1, <3>2, <3>3, <3>4, <3>5
  <2>4. CASE todo = "ban6" /\ kind = "hash"
    <3>1. \A k \in Nets : elems'["bannet6"][k] = elems["bannet6"][k]
      <4> TAKE k \in Nets
      <4>1. ASSUME NEW l \in f PROVE Place(l) # <<"bannet6", k>>
        BY <1>2, <1>5, <2>4 DEF Place, IsHash
      <4>2. es["bannet6"][k] = elems["bannet6"][k]
        BY <1>4, <2>0, <2>4
      <4> QED
        BY <1>1, <1>2, <1>4, <2>0, <4>1, <4>2, AddedKeeps
    <3>2. CASE n[2] # prefix
      BY <1>3, <2>0, <2>4, <3>1, <3>2 DEF Held
    <3>3. CASE n[2] = prefix
      <4>1. ASSUME NEW a \in Addrs, InHash(a, n)
            PROVE  elems'["ban6"][Host(n[1])] # 0 /\ InHash(n[1], n)'
        <5> DEFINE e == <<a, prefix>>
        <5>1. e \in Nets /\ e[1] = a /\ e[2] = prefix
          BY NftAssumption DEF Nets, TypeOK
        <5>2. Trunc(e) = n /\ elems["ban6"][Host(e[1])] # 0
          BY <4>1 DEF InHash
        <5> HIDE DEF e
        <5>3. Listing(todo)[e] > 0 /\ Listing(todo)[e] <= listed[e]
              /\ Listing(todo)[e] \in Nat /\ listed[e] \in Nat
          <6>1. Listing(todo)[e] > 0 /\ Listing(todo)[e] \in 0 .. MaxTtl
            BY <1>2, <2>4, <5>1, <5>2, ListingIs DEF IsHash
          <6>2. Listing(todo)[e] <= listed[e] /\ listed[e] \in 0 .. MaxTtl /\ MaxTtl \in Nat
            BY <2>0, <5>1, Times DEF ReadOK
          <6> QED
            BY <6>1, <6>2
        <5>4. e \in ns
          BY <5>1, <5>3 DEF Entries
        <5>5. Place(e) = <<"ban6", Host(n[1])>>
          BY <5>1, <5>2 DEF Place
        <5>6. n[1] \in Addrs /\ Fixed(n) /\ Trunc(<<n[1], prefix>>) = n
          BY <3>3, <5>1, <5>2, TruncType, Keys DEF Fixed
        <5>7. elems'["ban6"][Host(n[1])] # 0
          BY <2>2, <5>4, <5>5, <5>6, HostType
        <5> QED
          BY <2>1, <5>6, <5>7
      <4>2. elems["bannet6"][n] # 0 /\ elems["ban6"][Host(n[1])] # 0 => InHash(n[1], n)
        BY <1>2, <3>3, Keys DEF Shapes, Fixed, InHash
      <4>3. n[1] \in Addrs
        BY DEF Nets
      <4>4. /\ (\E a \in Addrs : InHash(a, n)') \/ elems'["bannet6"][n] >= asked[n]
            /\ elems'["bannet6"][n] # 0 =>
                  elems'["bannet6"][n] >= asked[n] \/ elems'["ban6"][Host(n[1])] # 0
        BY <2>0, <2>4, <3>1, <3>3, <4>1, <4>2, <4>3 DEF Held
      <4> QED
        BY <1>3, <2>3, <3>3, <4>4 DEF Held, Host
    <3> QED
      BY <3>2, <3>3
  <2>5. CASE kind # "hash"
    <3>1. todo = "ban6" /\ ~IsHash(todo) /\ elems["ban6"][n] >= asked[n] /\ elems["ban6"][n] \in Nat
      BY <1>2, <2>0, <2>5, Times DEF Stage, Sets, Held, IsHash
    <3>2. elems["ban6"][n] # 0
      BY <1>2, <2>0, <3>1
    <3>3. n \in ns /\ now + listed[n] >= asked[n]
      BY <1>2, <1>11, <2>0, <3>1, <3>2, Covered DEF Entries
    <3>4. Fixed(n)
      BY <1>5, <3>1, <3>3
    <3>5. CASE n[2] = prefix
      <4>1. Place(n) = <<"ban6", Host(n[1])>> /\ n[1] \in Addrs /\ Trunc(<<n[1], prefix>>) = n
        BY <3>4, <3>5, PlaceFixed, Keys DEF Fixed
      <4>2. elems'["ban6"][Host(n[1])] # 0
        BY <2>2, <3>3, <4>1, HostType
      <4> QED
        BY <1>3, <2>1, <2>3, <3>5, <4>1, <4>2 DEF Held, Host
    <3>6. CASE n[2] # prefix
      <4>1. Place(n) = <<"bannet6", n>>
        BY <3>6 DEF Place
      <4>2. PICK l \in f : Place(l) = Place(n)
                           /\ Added(es, f)[Place(n)[1]][Place(n)[2]] = now + listed[l]
        BY <1>1, <1>2, <1>4, <3>3, AddedIs
      <4>3. l = n
        BY <1>2, <1>5, <4>1, <4>2, EntryPlace
      <4>4. elems'["bannet6"][n] = now + listed[n]
        BY <1>1, <4>1, <4>2, <4>3
      <4> QED
        BY <1>3, <3>3, <3>6, <4>4 DEF Held
    <3> QED
      BY <3>5, <3>6
  <2>6. CASE todo = "bannet6"
    <3>0. kind = "hash" /\ ~IsHash(todo)
      BY <2>6 DEF Stage, IsHash
    <3>1. CASE n[2] # prefix
      <4>1. elems["bannet6"][n] >= asked[n] /\ elems["bannet6"][n] \in Nat
        BY <2>0, <3>0, <3>1, Times DEF Held
      <4>2. elems["bannet6"][n] # 0
        BY <1>2, <2>0, <4>1
      <4>3. n \in ns /\ now + listed[n] >= asked[n]
        BY <1>2, <1>11, <2>0, <2>6, <3>0, <4>1, <4>2, Covered DEF Entries
      <4>4. Place(n) = <<"bannet6", n>>
        BY <3>1 DEF Place
      <4>5. PICK l \in f : Place(l) = Place(n)
                           /\ Added(es, f)[Place(n)[1]][Place(n)[2]] = now + listed[l]
        BY <1>1, <1>2, <1>4, <4>3, AddedIs
      <4>6. l = n
        BY <1>2, <1>5, <4>4, <4>5, EntryPlace
      <4>7. elems'["bannet6"][n] = now + listed[n]
        BY <1>1, <4>4, <4>5, <4>6
      <4> QED
        BY <1>3, <3>1, <4>3, <4>7 DEF Held
    <3>2. CASE n[2] = prefix
      <4>1. elems'["bannet6"][n] = 0
        <5>1. \A l \in f : Place(l) # <<"bannet6", n>>
          BY <1>2, <1>5, <3>2, EntryPlace
        <5> QED
          BY <1>6, <2>0, <2>6, <5>1
      <4>2. ASSUME NEW a \in Addrs, InHash(a, n) PROVE InHash(a, n)'
        <5>1. Host(a) \in Nets /\ elems["ban6"][Host(a)] # 0 /\ Trunc(<<a, prefix>>) = n
          BY <4>2, HostType DEF InHash
        <5>2. es["ban6"][Host(a)] = elems["ban6"][Host(a)]
          BY <1>4, <2>0, <2>6, <5>1
        <5>3. elems'["ban6"][Host(a)] = es["ban6"][Host(a)]
          BY <1>1, <1>2, <1>4, <2>0, <5>1, <5>2, AddedKeeps
        <5> QED
          BY <2>1, <5>1, <5>2, <5>3
      <4>3. ASSUME elems["bannet6"][n] >= asked[n] PROVE \E a \in Addrs : InHash(a, n)'
        <5>1. elems["bannet6"][n] # 0 /\ elems["bannet6"][n] \in Nat
          BY <1>2, <2>0, <4>3, Times
        <5>2. n \in ns
          BY <1>2, <1>11, <2>0, <2>6, <3>0, <4>3, <5>1, Covered DEF Entries
        <5>3. Fixed(n)
          BY <1>5, <3>0, <5>2
        <5>4. Place(n) = <<"ban6", Host(n[1])>> /\ n[1] \in Addrs /\ Trunc(<<n[1], prefix>>) = n
          BY <3>2, <5>3, PlaceFixed, Keys DEF Fixed
        <5> QED
          BY <2>1, <2>2, <5>2, <5>4, HostType
      <4>4. \E a \in Addrs : InHash(a, n)'
        BY <2>0, <3>0, <3>2, <4>2, <4>3 DEF Held
      <4> QED
        BY <1>3, <2>3, <3>2, <4>1, <4>4 DEF Held, Host
    <3> QED
      BY <3>1, <3>2
  <2> QED
    BY <1>2, <2>4, <2>5, <2>6 DEF Sets
<1>12. AskedHeld'
  BY <1>3, <1>11 DEF AskedHeld
<1>13. Lifts'
  <2>1. ASSUME NEW n \in lifted PROVE Gone(n)'
    <3>1. n \in Nets /\ Gone(n) /\ kind = "hash" /\ "ban6" \in Sets /\ "bannet6" \in Sets
      BY <1>2, AskedFixed DEF Lifts, TypeOK, Sets
    <3>2. elems'["bannet6"][n] = 0
      <4>1. \A l \in f : Place(l) # <<"bannet6", n>>
        BY <1>2, NotPutBack
      <4> QED
        BY <1>6, <3>1, <4>1 DEF Gone
    <3>3. ASSUME n[2] = prefix, NEW a \in Addrs, elems'["ban6"][Host(a)] # 0, Trunc(<<a, prefix>>) = n
          PROVE  FALSE
      <4>1. Host(a) \in Nets /\ elems["ban6"][Host(a)] = 0
        BY <3>1, <3>3, HostType DEF Gone, InHash
      <4>2. \A l \in f : Place(l) # <<"ban6", Host(a)>>
        BY <1>2, <3>3, NotPutBack
      <4> QED
        BY <1>6, <3>1, <3>3, <4>1, <4>2
    <3> QED
      BY <3>2, <3>3 DEF Gone, InHash, Host, Trunc
  <2> QED
    BY <1>3, <2>1 DEF Lifts
<1> QED
  BY <1>3, <1>7, <1>9, <1>10, <1>12, <1>13 DEF World

\* After a move the hash is on the boundary of the prefix.
LEMMA WorldMoved ==
    ASSUME TypeOK, World, Stage, ReadOK, pc = "move",
           NEW off, off = Off(listed),
           NEW gone, gone = {Host(n[1]) : n \in off},
           NEW free, free = {n \in off : listed[Trunc(n)] = 0},
           NEW f \in Firsts(free), Fits(Deleted("ban6", gone), f),
           elems' = Added(Deleted("ban6", gone), f),
           UNCHANGED <<kind, now, prefix, asked, lapsed, lifted>>
    PROVE  World' /\ Aligned'
<1> DEFINE es == Deleted("ban6", gone)
<1>1. /\ kind = "hash" /\ now \in Nat /\ prefix \in Prefixes
      /\ Timely /\ Shapes /\ AskedHeld /\ Lifts
      /\ IsHash("ban6") /\ Source = "ban6" /\ "ban6" \in Sets /\ "bannet6" \in Sets
  BY DEF TypeOK, World, Stage, IsHash, Source, Sets
<1>2. /\ off \in SUBSET Nets /\ free \in SUBSET Nets /\ f \subseteq free
      /\ \A n \in off : n[2] = prefix /\ listed[n] \in 1 .. MaxTtl /\ ~Fixed(n)
  <2>1. ASSUME NEW n \in off
        PROVE  n \in Nets /\ n[2] = prefix /\ listed[n] \in 1 .. MaxTtl /\ ~Fixed(n)
    <3>1. n \in Entries(listed) /\ n \in Nets /\ listed[n] > 0 /\ ~Fixed(n)
      BY DEF Off, Entries, Fixed
    <3>2. n[2] = prefix
      BY <1>1, <3>1 DEF ReadOK, EntryShape
    <3>3. listed[n] \in 1 .. MaxTtl
      BY <3>1, Times
    <3> QED
      BY <3>1, <3>2, <3>3
  <2> QED
    BY <2>1, FirstsSub
<1>3. /\ es \in [Sets -> [Nets -> Nat]]
      /\ \A s \in Sets, k \in Nets : es[s][k] = IF s = "ban6" /\ k \in gone THEN 0 ELSE elems[s][k]
      /\ Fits(es, f) /\ elems' = Added(es, f)
  BY <1>1 DEF TypeOK, Deleted
<1> HIDE DEF es
<1>4. ASSUME NEW s \in Sets, NEW k \in Nets
      PROVE  \/ elems'[s][k] = 0
             \/ elems'[s][k] = elems[s][k] /\ (s = "ban6" => k \notin gone)
             \/ \E n \in f : Place(n) = <<s, k>> /\ elems'[s][k] = now + listed[n]
  <2>1. \/ elems'[s][k] = es[s][k]
        \/ \E n \in f : Place(n) = <<s, k>> /\ elems'[s][k] = now + listed[n]
    <3>1. free \in SUBSET Nets /\ es \in [Sets -> [Nets -> Nat]] /\ Fits(es, f)
      BY <1>2, <1>3
    <3>2. \/ Added(es, f)[s][k] = es[s][k]
          \/ \E n \in f : Place(n) = <<s, k>> /\ Added(es, f)[s][k] = now + listed[n]
      BY <3>1, AddedKeeps, Zenon
    <3> QED
      BY <1>3, <3>2
  <2>2. es[s][k] = IF s = "ban6" /\ k \in gone THEN 0 ELSE elems[s][k]
    BY <1>3
  <2> QED
    BY <2>1, <2>2
<1>5. Timely'
  <2>1. ASSUME NEW s \in Sets, NEW k \in Nets
        PROVE  elems'[s][k] = 0 \/ (elems'[s][k] > now /\ elems'[s][k] <= now + MaxTtl)
    <3>1. elems[s][k] = 0 \/ (elems[s][k] > now /\ elems[s][k] <= now + MaxTtl)
      BY <1>1 DEF Timely, Upper
    <3>2. ASSUME NEW n \in f, elems'[s][k] = now + listed[n]
          PROVE  elems'[s][k] > now /\ elems'[s][k] <= now + MaxTtl
      <4>1. listed[n] \in 1 .. MaxTtl /\ MaxTtl \in Nat
        BY <1>2, Times
      <4> QED
        BY <1>1, <3>2, <4>1
    <3> QED
      BY <1>4, <3>1, <3>2
  <2> QED
    BY <1>1, <2>1 DEF Timely, Upper
<1>6. \A k \in Nets : elems'["bannet6"][k] = elems["bannet6"][k]
  <2> TAKE k \in Nets
  <2>1. ASSUME NEW n \in f PROVE Place(n) # <<"bannet6", k>>
    BY <1>2 DEF Place
  <2>2. es["bannet6"][k] = elems["bannet6"][k]
    BY <1>1, <1>3
  <2>3. elems'["bannet6"][k] = es["bannet6"][k]
    BY <1>1, <1>2, <1>3, <2>1, AddedKeeps
  <2> QED
    BY <2>2, <2>3
<1>7. Shapes'
  BY <1>1, <1>6 DEF Shapes
<1>8. Aligned'
  <2>1. SUFFICES ASSUME NEW a \in Addrs, elems'["ban6"][Host(a)] # 0
                 PROVE  Fixed(<<a, prefix>>)
    BY DEF Aligned, Fixed, Trunc, Host
  <2>2. Host(a) \in Nets
    BY HostType
  <2>3. ASSUME elems["ban6"][Host(a)] # 0, Host(a) \notin gone PROVE Fixed(<<a, prefix>>)
    <3> DEFINE n == <<a, prefix>>
    <3>1. n \in Nets /\ n[1] = a /\ n[2] = prefix
      BY <1>1, NftAssumption DEF Nets
    <3> HIDE DEF n
    <3>2. Listing("ban6")[n] > 0 /\ Listing("ban6")[n] \in Nat
      <4>1. Listing("ban6")[n] > 0 /\ Listing("ban6")[n] \in 0 .. MaxTtl
        BY <1>1, <2>3, <3>1, ListingIs
      <4> QED
        BY <4>1, Times
    <3>3. listed[n] >= Listing("ban6")[n] /\ listed[n] \in Nat
      BY <1>1, <3>1, Times DEF ReadOK
    <3>4. n \in Entries(listed)
      BY <3>1, <3>2, <3>3 DEF Entries
    <3>5. n \notin off
      BY <2>3, <3>1
    <3>6. Fixed(n)
      BY <3>4, <3>5 DEF Off, Fixed
    <3> QED
      BY <3>6 DEF n
  <2>4. ASSUME NEW n \in f, Place(n) = <<"ban6", Host(a)>> PROVE Fixed(<<a, prefix>>)
    BY <1>2, <2>4, EntryPlace
  <2> QED
    BY <1>1, <1>4, <2>1, <2>2, <2>3, <2>4
<1>9. ASSUME NEW k \in Nets, k \notin gone, elems["ban6"][k] # 0
      PROVE  elems'["ban6"][k] = elems["ban6"][k]
  <2>1. es["ban6"][k] = elems["ban6"][k]
    BY <1>1, <1>3, <1>9
  <2>2. elems'["ban6"][k] = es["ban6"][k]
    BY <1>1, <1>2, <1>3, <1>9, <2>1, AddedKeeps
  <2> QED
    BY <2>1, <2>2
<1>10. \A n \in Nets, a \in Addrs :
           InHash(a, n)' <=> elems'["ban6"][Host(a)] # 0 /\ Trunc(<<a, prefix>>) = n
  BY DEF InHash, Host, Trunc
<1>11. ASSUME NEW n \in Nets, Fixed(n), n[2] = prefix, elems["ban6"][Host(n[1])] # 0
       PROVE  elems'["ban6"][Host(n[1])] # 0 /\ InHash(n[1], n)'
  <2>1. n[1] \in Addrs /\ Host(n[1]) \in Nets /\ Trunc(<<n[1], prefix>>) = n
    BY <1>11, Keys, HostType DEF Fixed
  <2>2. Host(n[1]) \notin gone
    <3> SUFFICES ASSUME NEW m \in off, Host(m[1]) = Host(n[1]) PROVE FALSE
      OBVIOUS
    <3>1. m \in Nets /\ m[2] = prefix /\ ~Fixed(m)
      BY <1>2
    <3>2. m[1] = n[1]
      BY DEF Host
    <3>3. m = n
      BY <1>11, <3>1, <3>2 DEF Nets
    <3> QED
      BY <1>11, <3>1, <3>3
  <2>3. elems'["ban6"][Host(n[1])] # 0
    BY <1>9, <1>11, <2>1, <2>2
  <2> QED
    BY <1>10, <2>1, <2>3
<1>12. ASSUME NEW n \in Nets, asked[n] # 0, n \notin lapsed
       PROVE  Held(n)'
  <2>0. Held(n) /\ asked[n] \in Nat
    BY <1>1, <1>12, Times DEF AskedHeld
  <2>1. CASE n[2] # prefix
    BY <1>1, <1>6, <2>0, <2>1 DEF Held
  <2>2. CASE n[2] = prefix
    <3>1. ASSUME NEW a \in Addrs, InHash(a, n)'
          PROVE  elems'["ban6"][Host(a)] >= asked[n]
      <4>1. Host(a) \in Nets /\ elems'["ban6"][Host(a)] # 0 /\ Trunc(<<a, prefix>>) = n
        BY <1>10, <3>1, HostType
      <4>2. CASE elems'["ban6"][Host(a)] = elems["ban6"][Host(a)]
        BY <1>1, <2>0, <2>2, <4>1, <4>2 DEF Held, InHash
      <4>3. ASSUME NEW l \in f, Place(l) = <<"ban6", Host(a)>>, elems'["ban6"][Host(a)] = now + listed[l]
            PROVE  elems'["ban6"][Host(a)] >= asked[n]
        <5>1. l \in Entries(listed)
          BY <1>2 DEF Off
        <5>2. now + listed[l] >= asked[n]
          BY <1>1, <1>12, <4>1, <4>3, <5>1, PutBack
        <5> QED
          BY <4>3, <5>2
      <4> QED
        BY <1>1, <1>4, <4>1, <4>2, <4>3
    <3>2. ASSUME NEW a \in Addrs, InHash(a, n)
          PROVE  \E b \in Addrs : InHash(b, n)'
      <4> DEFINE e == <<a, prefix>>
      <4>1. e \in Nets /\ e[1] = a /\ e[2] = prefix
        BY <1>1, NftAssumption DEF Nets
      <4>2. Trunc(e) = n /\ elems["ban6"][Host(e[1])] # 0 /\ Host(e[1]) \in Nets
        BY <3>2, <4>1, HostType DEF InHash
      <4>3. Fixed(n) /\ n[1] \in Addrs
        BY <4>1, <4>2, TruncType DEF Nets
      <4> HIDE DEF e
      <4>4. CASE Host(e[1]) \notin gone
        <5>1. elems'["ban6"][Host(e[1])] # 0 /\ e[1] \in Addrs /\ Trunc(<<e[1], prefix>>) = n
          BY <1>9, <4>1, <4>2, <4>4, Keys
        <5> QED
          BY <1>10, <5>1
      <4>5. CASE Host(e[1]) \in gone
        <5>1. e \in off
          <6>1. PICK m \in off : Host(m[1]) = Host(e[1])
            BY <4>5
          <6>2. m[1] = e[1] /\ m[2] = prefix /\ m \in Nets
            BY <1>2, <6>1 DEF Host
          <6>3. m = e
            BY <4>1, <6>2 DEF Nets
          <6> QED
            BY <6>1, <6>3
        <5>2. CASE listed[n] = 0
          <6>1. e \in free
            BY <4>2, <5>1, <5>2
          <6>2. PICK l \in f : Place(l) = Place(e)
                               /\ Added(es, f)[Place(e)[1]][Place(e)[2]] = now + listed[l]
            <7>1. /\ es \in [Sets -> [Nets -> Nat]] /\ free \in SUBSET Nets
                  /\ f \in Firsts(free) /\ e \in free /\ TypeOK
              BY <1>2, <1>3, <6>1
            <7> QED
              BY ONLY <7>1, AddedIs
          <6>3. listed[l] \in 1 .. MaxTtl /\ MaxTtl \in Nat
            BY <1>2, <6>2, Times
          <6>4. Place(e) = <<"ban6", Host(n[1])>>
            BY <4>1, <4>2 DEF Place
          <6>5. elems'["ban6"][Host(n[1])] = now + listed[l]
            BY <1>3, <6>2, <6>4
          <6>6. elems'["ban6"][Host(n[1])] # 0
            BY <1>1, <6>3, <6>5
          <6> QED
            BY <1>10, <2>2, <4>3, <6>6, Keys DEF Fixed
        <5>3. CASE listed[n] # 0
          <6>1. n \in Entries(listed) /\ Trunc(n) = n
            BY <4>3, <5>3, Times DEF Entries, Fixed
          <6>2. elems["ban6"][Host(n[1])] # 0
            BY <1>1, <1>12, <6>1 DEF ReadOK, EntryOK
          <6> QED
            BY <1>11, <2>2, <4>3, <6>2
        <5> QED
          BY <5>2, <5>3
      <4> QED
        BY <4>4, <4>5
    <3>3. elems["bannet6"][n] # 0 => Fixed(n)
      BY <1>1 DEF Shapes
    <3>4. /\ (\E a \in Addrs : InHash(a, n)') \/ elems'["bannet6"][n] >= asked[n]
          /\ elems'["bannet6"][n] # 0 =>
                elems'["bannet6"][n] >= asked[n] \/ elems'["ban6"][Host(n[1])] # 0
      BY <1>1, <1>6, <1>11, <2>0, <2>2, <3>2, <3>3 DEF Held
    <3> QED
      BY <1>1, <2>2, <3>1, <3>4 DEF Held, Host
  <2> QED
    BY <2>1, <2>2
<1>13. AskedHeld'
  BY <1>1, <1>12 DEF AskedHeld
<1>14. Lifts'
  <2>1. ASSUME NEW n \in lifted PROVE Gone(n)'
    <3>1. n \in Nets /\ Gone(n)
      BY <1>1, AskedFixed DEF Lifts, TypeOK
    <3>2. elems'["bannet6"][n] = 0
      BY <1>6, <3>1 DEF Gone
    <3>3. ASSUME n[2] = prefix, NEW a \in Addrs, elems'["ban6"][Host(a)] # 0, Trunc(<<a, prefix>>) = n
          PROVE  FALSE
      <4>1. Host(a) \in Nets /\ elems["ban6"][Host(a)] = 0
        BY <3>1, <3>3, HostType DEF Gone, InHash
      <4>2. \A l \in f : l \in Entries(listed)
        BY <1>2 DEF Off
      <4>3. \A l \in f : Place(l) # <<"ban6", Host(a)>>
        BY <3>3, <4>2, NotPutBack
      <4> QED
        BY <1>1, <1>4, <3>3, <4>1, <4>3
    <3> QED
      BY <3>2, <3>3 DEF Gone, InHash, Host, Trunc
  <2> QED
    BY <1>1, <2>1 DEF Lifts
<1> QED
  BY <1>5, <1>7, <1>8, <1>13, <1>14 DEF World

\* What happens where the ban of one network is put is nothing to another.
LEMMA OthersSame ==
    ASSUME kind = "hash", kind' = "hash", prefix' = prefix, NEW n \in Nets, Fixed(n),
           \A s \in Sets, k \in Nets : <<s, k>> # Place(n) => elems'[s][k] = elems[s][k],
           NEW m \in Nets, m # n
    PROVE  /\ Held(m) /\ asked'[m] = asked[m] => Held(m)'
           /\ Gone(m) => Gone(m)'
<1>0. "ban6" \in Sets /\ "bannet6" \in Sets
  BY DEF Sets
<1>1. elems'["bannet6"][m] = elems["bannet6"][m]
  <2>1. Place(n) # <<"bannet6", m>>
    BY DEF Place
  <2> QED
    BY <1>0, <2>1
<1>2. ASSUME NEW a \in Addrs, <<a, prefix>> # n
      PROVE  elems'["ban6"][Host(a)] = elems["ban6"][Host(a)]
  <2>1. Place(n) # <<"ban6", Host(a)>>
    <3>1. CASE n[2] = prefix
      <4>1. Place(n) = <<"ban6", Host(n[1])>> /\ n = <<n[1], prefix>>
        BY <3>1, PlaceFixed, Keys
      <4>2. Host(a) # Host(n[1])
        BY <1>2, <4>1 DEF Host
      <4> QED
        BY <4>1, <4>2
    <3>2. CASE n[2] # prefix
      BY <3>2 DEF Place
    <3> QED
      BY <3>1, <3>2
  <2> QED
    BY <1>0, <2>1, HostType
<1>3. ASSUME NEW a \in Addrs, Trunc(<<a, prefix>>) = m
      PROVE  elems'["ban6"][Host(a)] = elems["ban6"][Host(a)]
  <2>1. <<a, prefix>> # n
    BY <1>3 DEF Fixed
  <2> QED
    BY <1>2, <2>1
<1>4. m[2] = prefix => elems'["ban6"][Host(m[1])] = elems["ban6"][Host(m[1])]
  BY <1>2, Keys
<1>5. \A a \in Addrs : InHash(a, m)' <=> InHash(a, m)
  <2> TAKE a \in Addrs
  <2>1. InHash(a, m)' <=> elems'["ban6"][Host(a)] # 0 /\ Trunc(<<a, prefix>>) = m
    BY DEF InHash, Host, Trunc
  <2> QED
    BY <1>3, <2>1 DEF InHash
<1>6. Gone(m) => Gone(m)'
  BY <1>1, <1>5 DEF Gone
<1>7. ASSUME Held(m), asked'[m] = asked[m] PROVE Held(m)'
  <2>1. CASE m[2] # prefix
    BY <1>1, <1>7, <2>1 DEF Held
  <2>2. CASE m[2] = prefix
    <3>1. \A a \in Addrs : InHash(a, m) => elems'["ban6"][Host(a)] = elems["ban6"][Host(a)]
      BY <1>3 DEF InHash
    <3>2. /\ \A a \in Addrs : InHash(a, m)' => elems'["ban6"][Host(a)] >= asked'[m]
          /\ (\E a \in Addrs : InHash(a, m)') \/ elems'["bannet6"][m] >= asked'[m]
          /\ elems'["bannet6"][m] # 0 =>
                elems'["bannet6"][m] >= asked'[m] \/ elems'["ban6"][Host(m[1])] # 0
      BY <1>1, <1>4, <1>5, <1>7, <2>2, <3>1 DEF Held
    <3> QED
      BY <2>2, <3>2 DEF Held, Host
  <2> QED
    BY <2>1, <2>2
<1> QED
  BY <1>6, <1>7

\* An element that is taken away: of a network that is no longer asked for, or whose
\* renewal is under way.
LEMMA WorldDeleted ==
    ASSUME TypeOK, World, kind = "hash", Aligned, NEW n \in BanNets, Delete(n),
           asked' = asked \/ asked' = [asked EXCEPT ![n] = 0],
           \A m \in Nets \ {n} : m \in lapsed => m \in lapsed',
           asked'[n] = 0 \/ n \in lapsed' \/ (elems' = elems /\ n \notin lapsed),
           lifted' \subseteq lifted \cup {n},
           n \in lifted' => elems' = Deleted(Place(n)[1], {Place(n)[2]}) /\ ~Strays(n)
    PROVE  World' /\ Aligned'
<1>1. /\ elems' = elems \/ elems' = Deleted(Place(n)[1], {Place(n)[2]})
      /\ UNCHANGED <<kind, now, prefix>>
  BY DEF Delete, Removes
<1>2. /\ n \in Nets /\ Fixed(n) /\ Place(n)[1] \in Sets /\ Place(n)[2] \in Nets
      /\ Place(n) = <<Place(n)[1], Place(n)[2]>>
      /\ Timely /\ Shapes /\ AskedHeld /\ Lifts /\ now \in Nat
      /\ "ban6" \in Sets /\ "bannet6" \in Sets
  BY AskedFixed, PlaceType DEF World, TypeOK, Sets
<1>3. \A m \in Nets : asked'[m] = asked[m] \/ (m = n /\ asked'[m] = 0)
  BY <1>2 DEF TypeOK
<1>4. ASSUME elems' = Deleted(Place(n)[1], {Place(n)[2]})
      PROVE  \A s \in Sets, k \in Nets : elems'[s][k] = IF <<s, k>> = Place(n) THEN 0 ELSE elems[s][k]
  <2>1. \A s \in Sets, k \in Nets :
            elems'[s][k] = IF s = Place(n)[1] /\ k = Place(n)[2] THEN 0 ELSE elems[s][k]
    BY <1>2, <1>4 DEF Deleted, TypeOK
  <2> QED
    BY <1>2, <2>1
<1>5. \A s \in Sets, k \in Nets : /\ elems'[s][k] = 0 \/ elems'[s][k] = elems[s][k]
                                  /\ <<s, k>> # Place(n) => elems'[s][k] = elems[s][k]
  BY <1>1, <1>4
<1>6. Timely'
  BY <1>1, <1>2, <1>3, <1>5 DEF Timely, Upper
<1>7. Shapes'
  BY <1>1, <1>2, <1>5 DEF Shapes, Sets
<1>8. Aligned'
  BY <1>1, <1>5, HostType DEF Aligned, Fixed, Trunc, Host, Sets
<1>9. AskedHeld'
  <2> SUFFICES ASSUME NEW m \in Nets, m \notin lapsed', asked'[m] # 0
               PROVE  Held(m)'
    BY <1>1 DEF AskedHeld
  <2>1. CASE m # n
    <3>1. asked'[m] = asked[m] /\ m \notin lapsed
      BY <1>3, <2>1
    <3>2. Held(m)
      BY <1>2, <3>1 DEF AskedHeld
    <3> QED
      BY <1>1, <1>2, <1>5, <2>1, <3>1, <3>2, OthersSame
  <2>2. CASE m = n
    <3>1. asked'[n] = asked[n] /\ elems' = elems /\ n \notin lapsed
      BY <1>3, <2>2
    <3>2. Held(n)
      BY <1>2, <2>2, <3>1 DEF AskedHeld
    <3> QED
      BY <1>1, <2>2, <3>1, <3>2 DEF Held, InHash, Host, Trunc
  <2> QED
    BY <2>1, <2>2
<1>10. Lifts'
  <2> SUFFICES ASSUME NEW m \in lifted' PROVE Gone(m)'
    BY <1>1 DEF Lifts
  <2>1. CASE m # n
    <3>1. m \in lifted /\ m \in Nets
      BY <2>1, AskedFixed DEF TypeOK
    <3> QED
      BY <1>1, <1>2, <1>5, <2>1, <3>1, OthersSame DEF Lifts
  <2>2. CASE m = n
    <3>1. elems' = Deleted(Place(n)[1], {Place(n)[2]}) /\ ~Strays(n)
      BY <2>2
    <3>2. \A s \in Sets, k \in Nets : elems'[s][k] = IF <<s, k>> = Place(n) THEN 0 ELSE elems[s][k]
      BY <1>4, <3>1
    <3>3. CASE n[2] # prefix
      <4>1. elems'["bannet6"][n] = 0
        BY <1>2, <3>2, <3>3 DEF Place
      <4> QED
        BY <1>1, <2>2, <3>3, <4>1 DEF Gone
    <3>4. CASE n[2] = prefix
      <4>1. elems["bannet6"][n] = 0
        BY <1>2, <3>1, <3>4 DEF Strays, Timely
      <4>2. elems'["bannet6"][n] = 0
        BY <1>2, <1>5, <4>1
      <4>3. ASSUME NEW a \in Addrs, elems'["ban6"][Host(a)] # 0, Trunc(<<a, prefix>>) = n PROVE FALSE
        <5>1. Fixed(<<a, prefix>>)
          BY <1>1, <1>8, <4>3 DEF Aligned, Host, Fixed, Trunc
        <5>2. n[1] = a
          BY <4>3, <5>1 DEF Fixed
        <5>3. Place(n) = <<"ban6", Host(a)>>
          BY <1>2, <3>4, <5>2, PlaceFixed
        <5> QED
          BY <1>2, <3>2, <4>3, <5>3, HostType
      <4>4. \A a \in Addrs : ~InHash(a, n)'
        BY <1>1, <4>3 DEF InHash, Host, Trunc
      <4> QED
        BY <2>2, <4>2, <4>4 DEF Gone
    <3> QED
      BY <3>3, <3>4
  <2> QED
    BY <2>1, <2>2
<1> QED
  BY <1>6, <1>7, <1>8, <1>9, <1>10 DEF World

\* A ban is put where nothing is.
LEMMA WorldAdded ==
    ASSUME TypeOK, World, Stage, Add
    PROVE  World' /\ Aligned'
<1>0. /\ kind = "hash" /\ Aligned /\ next # <<>> /\ next[1] \notin lifted /\ pc = "add"
      /\ Timely /\ Shapes /\ AskedHeld /\ Lifts
  BY DEF Add, At, Stage, World
<1>1. PICK n \in BanNets, ttl \in 1 .. MaxTtl : next = <<n, ttl>> /\ now \in Nat /\ MaxTtl \in Nat
  BY <1>0, NftAssumption DEF TypeOK
<1> DEFINE end == now + ttl
<1>2. UNCHANGED <<kind, now, prefix, lifted>>
  BY DEF Add, world
<1>3. \/ UNCHANGED <<elems, asked, lapsed>>
      \/ /\ Fits(elems, {n})
         /\ elems' = [elems EXCEPT ![Place(n)[1]][Place(n)[2]] = end]
         /\ asked' = [asked EXCEPT ![n] = end]
         /\ lapsed' = lapsed \ {n}
  BY <1>1 DEF Add
<1>4. end \in Nat /\ end > now /\ end <= now + MaxTtl
  BY <1>1
<1>5. n \notin lifted
  BY <1>0, <1>1
<1> HIDE DEF end
<1>6. CASE UNCHANGED <<elems, asked, lapsed>>
  BY <1>0, <1>2, <1>6, WorldSame
<1>7. CASE /\ Fits(elems, {n})
           /\ elems' = [elems EXCEPT ![Place(n)[1]][Place(n)[2]] = end]
           /\ asked' = [asked EXCEPT ![n] = end]
           /\ lapsed' = lapsed \ {n}
  <2>1. /\ n \in Nets /\ Fixed(n) /\ Place(n)[1] \in Sets /\ Place(n)[2] \in Nets
        /\ Place(n) = <<Place(n)[1], Place(n)[2]>>
    BY <1>1, AskedFixed, PlaceType
  <2>2. elems \in [Sets -> [Nets -> Nat]] /\ asked \in [Nets -> Nat]
    BY DEF TypeOK
  <2>3. \A s \in Sets, k \in Nets :
            elems'[s][k] = IF <<s, k>> = Place(n) THEN end ELSE elems[s][k]
    <3>1. \A s \in Sets, k \in Nets :
              elems'[s][k] = IF s = Place(n)[1] /\ k = Place(n)[2] THEN end ELSE elems[s][k]
      BY <1>7, <2>1, <2>2
    <3> QED
      BY <2>1, <3>1
  <2>4. \A m \in Nets : asked'[m] = IF m = n THEN end ELSE asked[m]
    BY <1>7, <2>1, <2>2
  <2>5. Timely'
    BY <1>0, <1>2, <1>4, <2>3, <2>4 DEF Timely, Upper
  <2>6. \A k \in Nets : elems'["bannet6"][k] # 0 =>
            elems["bannet6"][k] # 0 \/ (k[2] # prefix /\ Fixed(k))
    BY <2>1, <2>3, EntryPlace DEF Sets
  <2>7. Shapes'
    BY <1>0, <1>2, <2>6 DEF Shapes
  <2>8. Aligned'
    <3> SUFFICES ASSUME NEW a \in Addrs, elems'["ban6"][Host(a)] # 0
                 PROVE  Fixed(<<a, prefix>>)
      BY <1>2 DEF Aligned, Fixed, Trunc, Host
    <3>1. Host(a) \in Nets /\ "ban6" \in Sets
      BY HostType DEF Sets
    <3> QED
      BY <1>0, <2>1, <2>3, <3>1, EntryPlace DEF Aligned
  <2>9. Held(n)'
    <3>1. elems'[Place(n)[1]][Place(n)[2]] = end /\ asked'[n] = end
      BY <2>1, <2>3, <2>4
    <3>2. CASE n[2] # prefix
      <4>1. elems'["bannet6"][n] = end
        BY <3>1, <3>2 DEF Place
      <4> QED
        BY <1>0, <1>2, <1>4, <3>1, <3>2, <4>1 DEF Held
    <3>3. CASE n[2] = prefix
      <4>1. n[1] \in Addrs /\ Trunc(<<n[1], prefix>>) = n /\ elems'["ban6"][Host(n[1])] = end
        BY <2>1, <3>1, <3>3, PlaceFixed, Keys DEF Fixed
      <4>2. \A a \in Addrs : InHash(a, n)' <=> elems'["ban6"][Host(a)] # 0 /\ Trunc(<<a, prefix>>) = n
        BY <1>2 DEF InHash, Host, Trunc
      <4>3. ASSUME NEW a \in Addrs, elems'["ban6"][Host(a)] # 0, Trunc(<<a, prefix>>) = n
            PROVE  a = n[1]
        <5>1. Fixed(<<a, prefix>>)
          BY <1>2, <2>8, <4>3 DEF Aligned, Host, Fixed, Trunc
        <5> QED
          BY <4>3, <5>1 DEF Fixed
      <4>4. /\ \A a \in Addrs : InHash(a, n)' => elems'["ban6"][Host(a)] >= asked'[n]
            /\ \E a \in Addrs : InHash(a, n)'
            /\ elems'["ban6"][Host(n[1])] # 0
        <5>1. elems'["ban6"][Host(n[1])] # 0
          BY <1>1, <1>4, <4>1
        <5>2. InHash(n[1], n)'
          BY <4>1, <4>2, <5>1
        <5>3. ASSUME NEW a \in Addrs, InHash(a, n)' PROVE elems'["ban6"][Host(a)] >= asked'[n]
          <6>1. a = n[1]
            BY <4>2, <4>3, <5>3
          <6> QED
            BY <1>4, <3>1, <4>1, <6>1
        <5> QED
          BY <4>1, <5>1, <5>2, <5>3
      <4> QED
        BY <1>0, <1>2, <3>3, <4>4 DEF Held, Host
    <3> QED
      BY <3>2, <3>3
  <2>10. AskedHeld'
    <3> SUFFICES ASSUME NEW m \in Nets, m \notin lapsed', asked'[m] # 0, m # n
                 PROVE  Held(m)'
      BY <1>0, <1>2, <2>9 DEF AskedHeld
    <3>1. asked'[m] = asked[m] /\ m \notin lapsed
      BY <1>7, <2>4
    <3>2. Held(m)
      BY <1>0, <3>1 DEF AskedHeld
    <3> QED
      BY <1>0, <1>2, <2>1, <2>3, <3>1, <3>2, OthersSame
  <2>11. Lifts'
    <3> SUFFICES ASSUME NEW m \in lifted PROVE Gone(m)'
      BY <1>0, <1>2 DEF Lifts
    <3>1. m \in Nets /\ m # n /\ Gone(m)
      BY <1>0, <1>5, AskedFixed DEF TypeOK, Lifts
    <3> QED
      BY <1>0, <1>2, <2>1, <2>3, <3>1, OthersSame
  <2> QED
    BY <2>5, <2>7, <2>8, <2>10, <2>11 DEF World
<1> QED
  BY <1>3, <1>6, <1>7

\* A moment passes: what has ended is gone, the rest stays, and what was read of a set
\* still covers it.
LEMMA WorldClock ==
    ASSUME TypeOK, World, Stage, ReadOK, Clock
    PROVE  World' /\ (Aligned => Aligned') /\ ReadOK'
<1>1. /\ now' = now + 1
      /\ elems' = [s \in Sets |-> [n \in Nets |-> IF elems[s][n] <= now' THEN 0 ELSE elems[s][n]]]
      /\ asked' = [n \in Nets |-> IF asked[n] <= now' THEN 0 ELSE asked[n]]
      /\ lapsed' = {n \in lapsed : asked'[n] > 0}
      /\ UNCHANGED <<kind, prefix, pc, todo, listed, lifted>>
  BY DEF Clock, daemon
<1>2. /\ Timely /\ Shapes /\ AskedHeld /\ Lifts
      /\ now \in Nat /\ MaxTtl \in Nat /\ "ban6" \in Sets /\ "bannet6" \in Sets
      /\ \A s \in Sets, n \in Nets : elems[s][n] \in Nat
      /\ \A n \in Nets : asked[n] \in Nat
  BY Times DEF World, Sets
<1>3. /\ \A s \in Sets, n \in Nets : elems'[s][n] = IF elems[s][n] <= now + 1 THEN 0 ELSE elems[s][n]
      /\ \A n \in Nets : asked'[n] = IF asked[n] <= now + 1 THEN 0 ELSE asked[n]
  BY <1>1
<1>4. Timely'
  <2>1. ASSUME NEW s \in Sets, NEW n \in Nets
        PROVE  elems'[s][n] = 0 \/ (elems'[s][n] > now' /\ elems'[s][n] <= now' + MaxTtl)
    <3>1. elems[s][n] = 0 \/ (elems[s][n] > now /\ elems[s][n] <= now + MaxTtl)
      BY <1>2 DEF Timely, Upper
    <3> QED
      BY <1>1, <1>2, <1>3, <3>1
  <2>2. \A n \in Nets : asked'[n] = 0 \/ asked'[n] > now'
    BY <1>1, <1>2, <1>3
  <2> QED
    BY <2>1, <2>2 DEF Timely, Upper
<1>5. /\ \A s \in Sets, n \in Nets : elems'[s][n] # 0 => elems[s][n] # 0 /\ elems'[s][n] = elems[s][n]
      /\ \A s \in Sets, n \in Nets : elems[s][n] = 0 => elems'[s][n] = 0
  BY <1>2, <1>3
<1>6. Shapes'
  BY <1>1, <1>2, <1>5 DEF Shapes, Sets
<1>7. Aligned => Aligned'
  BY <1>1, <1>5, HostType DEF Aligned, Fixed, Trunc, Host, Sets
<1>8. \A n, a : InHash(a, n)' <=> elems'["ban6"][Host(a)] # 0 /\ Trunc(<<a, prefix>>) = n
  BY <1>1 DEF InHash, Host, Trunc
\* A ban that is still asked for was asked for before, and what holds it stays.
<1>9. ASSUME NEW n \in Nets, asked'[n] # 0, n \notin lapsed'
      PROVE  /\ asked'[n] = asked[n] /\ asked[n] # 0 /\ n \notin lapsed /\ Held(n)
             /\ \A s \in Sets, k \in Nets : elems[s][k] >= asked[n] =>
                    elems'[s][k] = elems[s][k] /\ elems'[s][k] # 0
             /\ kind = "hash" /\ n[2] = prefix =>
                    \A a \in Addrs : InHash(a, n) =>
                        elems'["ban6"][Host(a)] = elems["ban6"][Host(a)] /\ InHash(a, n)'
  <2>1. asked'[n] = asked[n] /\ asked[n] > now + 1 /\ asked[n] # 0
    BY <1>2, <1>3, <1>9
  <2>2. n \notin lapsed
    BY <1>1, <1>2, <1>9, <2>1
  <2>3. Held(n)
    BY <1>2, <2>1, <2>2 DEF AskedHeld
  <2>4. ASSUME NEW s \in Sets, NEW k \in Nets, elems[s][k] >= asked[n]
        PROVE  elems'[s][k] = elems[s][k] /\ elems'[s][k] # 0
    BY <1>2, <1>3, <2>1, <2>4
  <2>5. ASSUME kind = "hash", n[2] = prefix, NEW a \in Addrs, InHash(a, n)
        PROVE  elems'["ban6"][Host(a)] = elems["ban6"][Host(a)] /\ InHash(a, n)'
    <3>1. elems["ban6"][Host(a)] >= asked[n] /\ Host(a) \in Nets
      BY <2>3, <2>5, HostType DEF Held
    <3> QED
      BY <1>2, <1>8, <2>4, <2>5, <3>1 DEF InHash
  <2> QED
    BY <2>1, <2>2, <2>3, <2>4, <2>5
\* So does a ban of its own in the hash.
<1>10. ASSUME NEW n \in Nets, asked'[n] # 0, n \notin lapsed', kind = "hash", n[2] = prefix,
              Fixed(n), elems["ban6"][Host(n[1])] # 0
       PROVE  elems'["ban6"][Host(n[1])] # 0
  <2>1. InHash(n[1], n) /\ n[1] \in Addrs
    BY <1>10, Keys DEF InHash, Fixed
  <2> QED
    BY <1>9, <1>10, <2>1
<1>11. AskedHeld'
  <2> SUFFICES ASSUME NEW n \in Nets, n \notin lapsed', asked'[n] # 0
               PROVE  Held(n)'
    BY <1>1, <1>2 DEF AskedHeld
  <2>1. asked'[n] = asked[n] /\ Held(n)
    BY <1>9
  <2>2. CASE kind = "hash" /\ n[2] = prefix
    <3>1. \A a \in Addrs : InHash(a, n)' => elems'["ban6"][Host(a)] >= asked'[n]
      <4> SUFFICES ASSUME NEW a \in Addrs, InHash(a, n)' PROVE elems'["ban6"][Host(a)] >= asked'[n]
        OBVIOUS
      <4>1. InHash(a, n)
        BY <1>2, <1>5, <1>8, HostType DEF InHash
      <4> QED
        BY <1>9, <2>1, <2>2, <4>1 DEF Held
    <3>2. (\E a \in Addrs : InHash(a, n)') \/ elems'["bannet6"][n] >= asked'[n]
      BY <1>2, <1>9, <2>1, <2>2 DEF Held
    <3>3. elems'["bannet6"][n] # 0 =>
              elems'["bannet6"][n] >= asked'[n] \/ elems'["ban6"][Host(n[1])] # 0
      <4>1. elems'["bannet6"][n] # 0 => /\ elems'["bannet6"][n] = elems["bannet6"][n]
                                       /\ elems["bannet6"][n] # 0 /\ Fixed(n)
        BY <1>2, <1>5 DEF Shapes
      <4> QED
        BY <1>10, <2>1, <2>2, <4>1 DEF Held
    <3> QED
      BY <1>1, <2>2, <3>1, <3>2, <3>3 DEF Held, Host
  <2>3. CASE ~(kind = "hash" /\ n[2] = prefix)
    BY <1>1, <1>2, <1>9, <2>1, <2>3 DEF Held
  <2> QED
    BY <2>2, <2>3
<1>12. Lifts'
  <2>1. ASSUME NEW n \in lifted PROVE Gone(n)'
    <3>1. n \in Nets /\ Gone(n)
      BY <1>2, AskedFixed DEF TypeOK, Lifts
    <3>2. elems'["bannet6"][n] = 0
      BY <1>2, <1>5, <3>1 DEF Gone
    <3>3. n[2] = prefix => \A a \in Addrs : ~InHash(a, n)'
      BY <1>2, <1>5, <1>8, <3>1, HostType DEF Gone, InHash
    <3> QED
      BY <1>1, <3>2, <3>3 DEF Gone
  <2> QED
    BY <1>1, <1>2, <2>1 DEF Lifts
<1>13. World'
  BY <1>4, <1>6, <1>11, <1>12 DEF World
<1>14. ReadOK'
  <2>0. /\ Source' = Source /\ IsHash(Source)' = IsHash(Source) /\ Entries(listed)' = Entries(listed)
        /\ \A e : EntryShape(e)' = EntryShape(e)
    BY <1>1 DEF Source, IsHash, Entries, EntryShape, Fixed, Trunc
  <2> SUFFICES ASSUME pc \in {"recreate", "repair", "move"}
               PROVE  /\ kind # "none"
                      /\ \A n \in Nets : Listing(Source)'[n] <= listed[n]
                      /\ \A e \in Entries(listed) : EntryShape(e) /\ EntryOK(e)'
    BY <1>1, <2>0 DEF ReadOK
  <2>1. Source \in Sets /\ (Source = "ban6" \/ Source = todo)
    BY DEF Source, Sets, TypeOK
  <2>2. ASSUME NEW n \in Nets PROVE Listing(Source)'[n] <= Listing(Source)[n]
    <3> DEFINE k == IF IsHash(Source) THEN Host(n[1]) ELSE n
    <3>1. Listing(Source)[n] = IF (IsHash(Source) => n[2] = prefix) /\ elems[Source][k] > now
                               THEN elems[Source][k] - now ELSE 0
      BY DEF Listing
    <3>2. Listing(Source)'[n] = IF (IsHash(Source) => n[2] = prefix) /\ elems'[Source][k] > now'
                                THEN elems'[Source][k] - now' ELSE 0
      BY <1>1 DEF Listing, IsHash, Host, Source
    <3>3. k \in Nets
      BY HostType DEF Nets
    <3> HIDE DEF k
    <3> QED
      BY <1>1, <1>2, <1>3, <2>1, <3>1, <3>2, <3>3
  <2>3. \A n \in Nets : /\ Listing(Source)[n] <= listed[n] /\ listed[n] \in Nat
                        /\ Listing(Source)[n] \in Nat /\ Listing(Source)'[n] \in Int
    <3> TAKE n \in Nets
    <3>1. Listing(Source)[n] <= listed[n]
      BY DEF ReadOK
    <3>2. listed[n] \in 0 .. MaxTtl /\ Listing(Source)[n] \in 0 .. MaxTtl
      BY <1>2, <2>1, Times, ListingIs
    <3>3. Listing(Source)'[n] \in Int
      <4> DEFINE k == IF IsHash(Source) THEN Host(n[1]) ELSE n
      <4>1. Listing(Source)'[n] = IF (IsHash(Source) => n[2] = prefix) /\ elems'[Source][k] > now'
                                  THEN elems'[Source][k] - now' ELSE 0
        BY <1>1 DEF Listing, IsHash, Host, Source
      <4>2. k \in Nets
        BY HostType DEF Nets
      <4> HIDE DEF k
      <4> QED
        BY <1>1, <1>2, <1>3, <2>1, <4>1, <4>2
    <3> QED
      BY <1>2, <3>1, <3>2, <3>3
  <2>4. \A n \in Nets : Listing(Source)'[n] <= listed[n]
    BY <2>2, <2>3
  <2>5. ASSUME NEW e \in Entries(listed) PROVE EntryShape(e) /\ EntryOK(e)'
    <3> DEFINE n == Trunc(e)
    <3>1. e \in Nets /\ EntryShape(e) /\ EntryOK(e)
      BY DEF ReadOK, Entries
    <3>2. n \in Nets /\ n[2] = e[2] /\ Fixed(n) /\ n \notin lifted
      BY <3>1, TruncType DEF EntryOK
    <3>3. ASSUME asked'[n] # 0, n \notin lapsed'
          PROVE  /\ \/ now' + listed[e] >= asked'[n]
                    \/ Source = "bannet6" /\ n[2] = prefix /\ elems'["ban6"][Host(n[1])] # 0
                 /\ IsHash(Source) => elems'["ban6"][Host(e[1])] # 0
      <4>1. asked'[n] = asked[n] /\ asked[n] # 0 /\ n \notin lapsed
        BY <1>9, <3>2, <3>3
      <4>2. /\ \/ now + listed[e] >= asked[n]
               \/ Source = "bannet6" /\ n[2] = prefix /\ elems["ban6"][Host(n[1])] # 0
            /\ IsHash(Source) => elems["ban6"][Host(e[1])] # 0
        BY <3>1, <4>1 DEF EntryOK
      <4>3. ASSUME now + listed[e] >= asked[n]
            PROVE  now' + listed[e] >= asked'[n]
        <5>1. listed[e] \in Nat /\ asked[n] \in Nat
          BY <1>2, <2>3, <3>1, <3>2
        <5> QED
          BY <1>1, <1>2, <4>1, <4>3, <5>1
      <4>4. ASSUME Source = "bannet6", n[2] = prefix, elems["ban6"][Host(n[1])] # 0
            PROVE  elems'["ban6"][Host(n[1])] # 0
        <5>1. kind = "hash"
          BY <2>1, <4>4 DEF Stage
        <5> QED
          BY <1>10, <3>2, <3>3, <4>4, <5>1
      <4>5. IsHash(Source) => elems'["ban6"][Host(e[1])] # 0
        <5> SUFFICES ASSUME IsHash(Source) PROVE elems'["ban6"][Host(e[1])] # 0
          OBVIOUS
        <5>1. kind = "hash" /\ e[2] = prefix /\ e[1] \in Addrs /\ InHash(e[1], n)
          BY <3>1, <4>2, Keys DEF IsHash, EntryShape, InHash
        <5>2. elems'["ban6"][Host(e[1])] = elems["ban6"][Host(e[1])]
          BY <1>9, <3>2, <3>3, <5>1
        <5> QED
          BY <4>2, <5>2
      <4> QED
        BY <4>2, <4>3, <4>4, <4>5
    <3>4. EntryOK(e)'
      <4>1. Trunc(e)' = n
        BY DEF Trunc
      <4> QED
        BY <1>1, <2>0, <3>2, <3>3, <4>1 DEF EntryOK, Host
    <3> QED
      BY <3>1, <3>4
  <2> QED
    BY <2>4, <2>5 DEF ReadOK
<1> QED
  BY <1>7, <1>13, <1>14

-----------------------------------------------------------------------------
(* The initial states, and the types.                                      *)

LEMMA InitOK == ASSUME Init PROVE NInv
<1>1. PICK b \in SUBSET BanNets :
          /\ kind = "none" => b = {}
          /\ asked = [n \in Nets |-> IF n \in b THEN MaxTtl ELSE 0]
          /\ elems = [s \in Sets |-> IF s = "ban6" THEN asked ELSE None]
  BY DEF Init
<1>2. /\ kind \in {"none", "interval"} /\ torn = {} /\ mask \in {0, Width}
      /\ now = 0 /\ faults = 0 /\ prefix \in Prefixes /\ running = FALSE
      /\ pc = "down" /\ todo = "ban6" /\ rebuilt = FALSE /\ listed = None /\ next = <<>>
      /\ lapsed = {} /\ lifted = {}
  BY DEF Init
<1>3. MaxTtl \in Nat \ {0} /\ MaxFaults \in Nat /\ Width \in Nat \ {0}
  BY NftAssumption
<1>4. /\ asked \in [Nets -> {0, MaxTtl}] /\ \A n \in Nets : asked[n] # 0 => n \in b
      /\ \A n \in Nets : elems["ban6"][n] = asked[n] /\ elems["bannet6"][n] = 0
      /\ elems \in [Sets -> [Nets -> {0, MaxTtl}]]
  <2>1. asked \in [Nets -> {0, MaxTtl}] /\ \A n \in Nets : asked[n] # 0 => n \in b
    BY <1>1, <1>3
  <2>2. None \in [Nets -> {0, MaxTtl}] /\ \A n \in Nets : None[n] = 0
    BY DEF None
  <2>3. elems["ban6"] = asked /\ elems["bannet6"] = None
    BY <1>1 DEF Sets
  <2>4. elems \in [Sets -> [Nets -> {0, MaxTtl}]]
    BY <1>1, <2>1, <2>2
  <2> QED
    BY <2>1, <2>2, <2>3, <2>4
<1>5. TypeOK
  <2>1. elems \in [Sets -> [Nets -> Nat]] /\ asked \in [Nets -> Nat]
    BY <1>3, <1>4
  <2>2. listed \in [Nets -> 0 .. MaxTtl]
    BY <1>2, <1>3 DEF None
  <2>3. /\ kind \in {"none", "hash", "interval"} /\ torn \subseteq Sets \X Nets
        /\ mask \in 0 .. Width /\ now \in Nat /\ faults \in 0 .. MaxFaults
    BY <1>2, <1>3
  <2> QED
    BY <1>2, <2>1, <2>2, <2>3 DEF TypeOK, Sets
<1>6. Timely
  BY <1>2, <1>3, <1>4 DEF Timely, Upper, Sets
<1>7. Shapes
  <2>1. \A n \in b : Fixed(n)
    BY AskedFixed
  <2> QED
    BY <1>1, <1>2, <1>4, <2>1 DEF Shapes, Sets
<1>8. AskedHeld
  BY <1>2, <1>3, <1>4 DEF AskedHeld, Held
<1>9. Lifts
  BY <1>2 DEF Lifts
<1>10. Stage /\ ReadOK
  BY <1>2 DEF Stage, ReadOK
<1> QED
  BY <1>5, <1>6, <1>7, <1>8, <1>9, <1>10 DEF NInv, World

LEMMA NoneType == None \in [Nets -> 0 .. MaxTtl]
BY NftAssumption DEF None

LEMMA RecreatedType ==
    ASSUME TypeOK, NEW m \in 0 .. Width, Recreated(todo, m)
    PROVE  /\ elems' \in [Sets -> [Nets -> Nat]] /\ kind' \in {"none", "hash", "interval"}
           /\ torn' \subseteq Sets \X Nets /\ mask' \in 0 .. Width
<1>1. PICK f \in Firsts(Entries(listed)) : elems' = Added(Emptied(todo), f)
  BY DEF Recreated
<1>2. Emptied(todo) \in [Sets -> [Nets -> Nat]] /\ Entries(listed) \in SUBSET Nets
  BY DEF TypeOK, Emptied, None, Entries
<1>3. elems' \in [Sets -> [Nets -> Nat]]
  BY <1>1, <1>2, AddedIs
<1> QED
  BY <1>3 DEF Recreated, TypeOK

LEMMA MoveType ==
    ASSUME TypeOK, NEW gone, NEW free \in SUBSET Nets, NEW f \in Firsts(free),
           elems' = Added(Deleted("ban6", gone), f)
    PROVE  elems' \in [Sets -> [Nets -> Nat]]
<1>1. Deleted("ban6", gone) \in [Sets -> [Nets -> Nat]]
  BY DEF TypeOK, Deleted, Sets
<1> QED
  BY <1>1, AddedIs

LEMMA DeleteType ==
    ASSUME TypeOK, NEW n \in BanNets, Delete(n)
    PROVE  /\ elems' \in [Sets -> [Nets -> Nat]]
           /\ faults' \in 0 .. MaxFaults
           /\ UNCHANGED <<kind, torn, mask, now, prefix, running, todo, rebuilt, listed>>
<1>1. Place(n)[1] \in Sets
  BY AskedFixed, PlaceType
<1>2. Deleted(Place(n)[1], {Place(n)[2]}) \in [Sets -> [Nets -> Nat]]
  BY <1>1 DEF TypeOK, Deleted
<1>3. elems' = elems \/ elems' = Deleted(Place(n)[1], {Place(n)[2]})
  BY DEF Delete, Removes
<1>4. faults' \in 0 .. MaxFaults
  BY NftAssumption DEF Delete, Fault, TypeOK
<1> QED
  BY <1>2, <1>3, <1>4 DEF Delete, TypeOK

-----------------------------------------------------------------------------
(* Every action keeps the invariant.                                       *)

KernelType ==
    /\ kind \in {"none", "hash", "interval"}
    /\ elems \in [Sets -> [Nets -> Nat]]
    /\ torn \subseteq Sets \X Nets
    /\ mask \in 0 .. Width

\* A step of a start or of a listing, that reads nothing.
LEMMA Going ==
    ASSUME TypeOK, World', KernelType',
           NEW p \in {"down", "setup", "check", "read", "again", "rekey", "list", "up"},
           NEW s \in Sets, NEW r \in BOOLEAN,
           pc' = p /\ todo' = s /\ rebuilt' = r /\ listed' = None,
           running' \in BOOLEAN, UNCHANGED <<prefix, next, world, said>>,
           s = "bannet6" => kind' = "hash",
           p \in {"rekey", "list", "up"} => kind' = "hash" /\ mask' = prefix,
           running' => p \in {"list", "up"},
           p \in {"list", "up"} => Aligned'
    PROVE  NInv'
<1>1. TypeOK'
  BY NoneType DEF TypeOK, KernelType, world, said
<1>2. Stage'
  BY DEF Stage
<1>3. ReadOK'
  BY DEF ReadOK
<1> QED
  BY <1>1, <1>2, <1>3 DEF NInv

\* One that gives up.
LEMMA FailsOK ==
    ASSUME NInv, Fails, ~running, UNCHANGED kernel
    PROVE  NInv'
<1>1. World'
  BY WorldSame DEF NInv, Fails, GoesOn, kernel, world, said
<1>2. TypeOK /\ KernelType'
  BY DEF NInv, TypeOK, KernelType, kernel
<1>3. pc' = "down" /\ todo' = "ban6" /\ rebuilt' = FALSE /\ listed' = None
      /\ UNCHANGED <<prefix, running, next, world, said>>
  BY DEF Fails, GoesOn
<1>4. running' \in BOOLEAN /\ ~running' /\ "ban6" \in Sets
  BY <1>2, <1>3 DEF TypeOK, Sets
<1> QED
  BY <1>1, <1>2, <1>3, <1>4, Going

\* One that reads a set.
LEMMA ReadsOK ==
    ASSUME NInv, NEW p \in {"recreate", "repair", "move"}, NEW s \in Sets,
           s = "ban6" \/ (p # "move" /\ s = todo), p # "move" => s = todo,
           kind # "none", p \in {"repair", "move"} => kind = "hash" /\ mask = prefix,
           running => p = "repair", p = "repair" => Aligned,
           listed' = Listing(s), pc' = p,
           UNCHANGED <<kernel, world, said, prefix, running, todo, rebuilt, next>>
    PROVE  NInv'
<1>0. TypeOK /\ World /\ Stage /\ Timely
  BY DEF NInv, World
<1>1. World' /\ (Aligned => Aligned')
  BY <1>0, WorldSame DEF kernel, world, said
<1>2. TypeOK'
  BY <1>0, ListingType DEF TypeOK, kernel, world, said
<1>3. Stage'
  BY <1>0, <1>1 DEF Stage, kernel
<1>4. ReadOK'
  <2>1. Source' = s
    BY DEF Source
  <2>2. \A n \in Nets : Listing(Source)'[n] = listed'[n]
    BY <2>1 DEF Listing, IsHash, Host, kernel, world
  <2>3. \A n \in Nets : listed'[n] \in Nat
    BY <1>0, ListingType, Times
  <2>4. Entries(listed)' = Entries(Listing(s)) /\ IsHash(Source)' = IsHash(s)
    BY <2>1 DEF Entries, IsHash, kernel
  <2>5. ASSUME NEW e \in Entries(Listing(s)) PROVE EntryShape(e)' /\ EntryOK(e)'
    <3>1. /\ IF IsHash(s) THEN e[2] = prefix /\ elems["ban6"][Host(e[1])] # 0 ELSE Fixed(e)
          /\ Trunc(e) \notin lifted
          /\ asked[Trunc(e)] # 0 /\ Trunc(e) \notin lapsed =>
                \/ now + Listing(s)[e] >= asked[Trunc(e)]
                \/ s = "bannet6" /\ Trunc(e)[2] = prefix /\ elems["ban6"][Host(Trunc(e)[1])] # 0
      BY <1>0, ListingOK
    <3>2. EntryShape(e)'
      BY <2>4, <3>1 DEF EntryShape, Fixed, Trunc
    <3>3. EntryOK(e)'
      <4>1. Trunc(e)' = Trunc(e) /\ \A a : Host(a)' = Host(a)
        BY DEF Trunc, Host
      <4> QED
        BY <2>1, <2>4, <3>1, <4>1 DEF EntryOK, kernel, world, said
    <3> QED
      BY <3>2, <3>3
  <2>6. kind' # "none"
    BY DEF kernel
  <2>7. \A n \in Nets : Listing(Source)'[n] <= listed'[n]
    BY <2>2, <2>3
  <2> QED
    BY <2>4, <2>5, <2>6, <2>7 DEF ReadOK
<1> QED
  BY <1>1, <1>2, <1>3, <1>4 DEF NInv

LEMMA StartOK == ASSUME NInv, Start PROVE NInv'
<1>0. /\ TypeOK /\ World /\ Stage /\ World'
      /\ pc = "down" /\ pc' = "setup" /\ prefix' \in Prefixes
      /\ UNCHANGED <<kernel, world, running, todo, rebuilt, listed, next>>
  BY WorldStart DEF NInv, Start, At
<1>1. asked' \in [Nets -> Nat] /\ lapsed' \subseteq BanNets /\ lifted' \subseteq BanNets
  <2>1. CASE kind = "hash" /\ prefix' # prefix
    BY <1>0, <2>1, StartSaid DEF TypeOK
  <2>2. CASE ~(kind = "hash" /\ prefix' # prefix)
    BY <1>0, <2>2 DEF Start, TypeOK, said
  <2> QED
    BY <2>1, <2>2
<1>2. TypeOK'
  BY <1>0, <1>1 DEF TypeOK, kernel, world
<1>3. Stage' /\ ReadOK'
  BY <1>0 DEF Stage, ReadOK, kernel
<1> QED
  BY <1>0, <1>2, <1>3 DEF NInv

LEMMA SetUpOK ==
    ASSUME NInv, SetUp, Goes("rekey"), pc \in {"setup", "again"}
    PROVE  NInv'
<1>0. /\ kind # "interval" /\ kind' = "hash" /\ mask' = prefix
      /\ pc' = "rekey" /\ todo' = todo /\ rebuilt' = rebuilt /\ listed' = None
      /\ UNCHANGED <<elems, torn, prefix, running, next, world, said>>
      /\ TypeOK /\ World /\ Stage
  BY DEF SetUp, Goes, NInv
<1>1. World'
  BY <1>0, WorldMade DEF world, said
<1>2. KernelType' /\ todo \in Sets /\ rebuilt \in BOOLEAN /\ running' \in BOOLEAN /\ ~running'
  <2>1. prefix \in 0 .. Width
    BY <1>0, NftAssumption DEF TypeOK
  <2> QED
    BY <1>0, <2>1 DEF TypeOK, KernelType, Stage
<1> QED
  BY <1>0, <1>1, <1>2, Going

LEMMA SetupOK == ASSUME NInv, Setup PROVE NInv'
<1>0. pc = "setup" /\ TypeOK /\ World /\ Stage
  BY DEF Setup, At, NInv
<1>1. CASE SetUp /\ Goes("rekey")
  BY <1>0, <1>1, SetUpOK
<1>2. CASE kind = "interval" /\ GoesOn("check", "ban6", FALSE) /\ UNCHANGED kernel
  <2>1. /\ pc' = "check" /\ todo' = "ban6" /\ rebuilt' = FALSE /\ listed' = None
        /\ UNCHANGED <<prefix, running, next, world, said>>
    BY <1>2 DEF GoesOn
  <2>2. World'
    BY <1>0, <1>2, <2>1, WorldSame DEF kernel, world, said
  <2>3. KernelType' /\ running' \in BOOLEAN /\ ~running' /\ "ban6" \in Sets
    BY <1>0, <1>2, <2>1 DEF TypeOK, KernelType, kernel, Stage, Sets
  <2> QED
    BY <1>0, <2>1, <2>2, <2>3, Going
<1> QED
  BY <1>1, <1>2 DEF Setup

\* After the last set.
LEMMA AfterSetOK ==
    ASSUME NInv, ~running, World', KernelType', kind' = "hash", NEW r \in BOOLEAN, AfterSet(todo, r)
    PROVE  NInv'
<1>0. TypeOK /\ todo \in Sets /\ "ban6" \in Sets /\ "bannet6" \in Sets
  BY DEF NInv, TypeOK, Sets
<1>1. CASE todo = "ban6"
  <2>1. /\ pc' = "check" /\ todo' = "bannet6" /\ rebuilt' = r /\ listed' = None
        /\ UNCHANGED <<prefix, running, next, world, said>>
    BY <1>1 DEF AfterSet, GoesOn
  <2>2. running' \in BOOLEAN /\ ~running'
    BY <1>0, <2>1 DEF TypeOK
  <2> QED
    BY <1>0, <2>1, <2>2, Going
<1>2. CASE todo # "ban6"
  <2> DEFINE p == IF r THEN "again" ELSE "down"
  <2>1. /\ pc' = p /\ todo' = "ban6" /\ rebuilt' = FALSE /\ listed' = None
        /\ UNCHANGED <<prefix, running, next, world, said>>
    BY <1>2 DEF AfterSet, GoesOn
  <2>2. running' \in BOOLEAN /\ ~running' /\ p \in {"again", "down"}
    BY <1>0, <2>1 DEF TypeOK
  <2> HIDE DEF p
  <2> QED
    BY <1>0, <2>1, <2>2, Going
<1> QED
  BY <1>1, <1>2

LEMMA CheckOK == ASSUME NInv, Check PROVE NInv'
<1>0. pc = "check" /\ TypeOK /\ World /\ Stage /\ ~running /\ todo \in Sets
  BY DEF Check, At, NInv, Stage, TypeOK
<1>1. CASE todo = "ban6" /\ kind = "interval"
  <2>1. /\ pc' = "read" /\ todo' = todo /\ rebuilt' = rebuilt /\ listed' = None
        /\ UNCHANGED <<prefix, running, next, world, said, kernel>>
    BY <1>1 DEF Check, Goes
  <2>2. World'
    BY <1>0, <2>1, WorldSame DEF kernel, world, said
  <2>3. KernelType' /\ running' \in BOOLEAN /\ ~running' /\ rebuilt \in BOOLEAN
        /\ "ban6" \in Sets
    BY <1>0, <2>1 DEF TypeOK, KernelType, kernel, Sets
  <2>4. todo' = "ban6"
    BY <1>1, <2>1
  <2> QED
    BY <1>0, <2>1, <2>2, <2>3, <2>4, Going
<1>2. CASE ~(todo = "ban6" /\ kind = "interval")
  <2>1. /\ AfterSet(todo, rebuilt)
        /\ kind' = IF todo = "ban6" THEN "hash" ELSE kind
        /\ UNCHANGED <<elems, torn, mask>>
    BY <1>2 DEF Check
  <2>2. UNCHANGED <<prefix, world, said>>
    BY <2>1 DEF AfterSet, GoesOn
  <2>3. kind # "interval" /\ kind' = "hash"
    BY <1>0, <1>2, <2>1 DEF Stage, Sets
  <2>4. World'
    BY <1>0, <2>1, <2>2, <2>3, WorldMade DEF world, said
  <2>5. KernelType' /\ rebuilt \in BOOLEAN
    BY <1>0, <2>1, <2>3 DEF KernelType, TypeOK
  <2> QED
    BY <1>0, <2>1, <2>3, <2>4, <2>5, AfterSetOK
<1> QED
  BY <1>1, <1>2

LEMMA ReadStaleOK == ASSUME NInv, ReadStale PROVE NInv'
<1>0. pc = "read" /\ TypeOK /\ ~running /\ todo \in Sets
  BY DEF ReadStale, At, NInv, Stage, TypeOK
<1>1. CASE kind # "none" /\ Reads("recreate")
  <2>1. /\ listed' = Listing(todo) /\ pc' = "recreate"
        /\ UNCHANGED <<kernel, world, said, prefix, running, todo, rebuilt, next>>
    BY <1>1 DEF Reads
  <2> QED
    BY <1>0, <1>1, <2>1, ReadsOK
<1>2. CASE kind = "none" /\ Fails /\ UNCHANGED kernel
  BY <1>0, <1>2, FailsOK
<1> QED
  BY <1>1, <1>2 DEF ReadStale

LEMMA RecreateOK == ASSUME NInv, Recreate PROVE NInv'
<1>0. pc = "recreate" /\ TypeOK /\ World /\ Stage /\ ReadOK /\ ~running /\ todo \in Sets
  BY DEF Recreate, At, NInv, Stage, TypeOK
<1>1. CASE Recreated(todo, 0) /\ AfterSet(todo, TRUE)
  <2>1. UNCHANGED <<prefix, world, said>>
    BY <1>1 DEF AfterSet, GoesOn
  <2>2. World' /\ kind' = "hash"
    BY <1>0, <1>1, <2>1, WorldRecreated DEF world, said
  <2>3. 0 \in 0 .. Width
    BY NftAssumption
  <2>4. KernelType'
    BY <1>0, <1>1, <2>3, RecreatedType DEF KernelType
  <2> QED
    BY <1>0, <1>1, <2>2, <2>4, AfterSetOK
<1>2. CASE CannotRecreate(todo) /\ Fails /\ UNCHANGED kernel
  BY <1>0, <1>2, FailsOK
<1> QED
  BY <1>1, <1>2 DEF Recreate

LEMMA RekeyOK == ASSUME NInv, Rekey PROVE NInv'
<1>0. /\ pc = "rekey" /\ TypeOK /\ World /\ Stage /\ ~running /\ "ban6" \in Sets
      /\ kind = "hash" /\ mask = prefix /\ Timely
  BY DEF Rekey, At, NInv, Stage, Sets, World
<1>1. CASE Off(Listing("ban6")) = {}
  <2>1. /\ pc' = "list" /\ todo' = "ban6" /\ rebuilt' = FALSE /\ listed' = None
        /\ UNCHANGED <<prefix, running, next, world, said, kernel>>
    BY <1>1 DEF Rekey, GoesOn
  <2>2. Aligned
    <3> SUFFICES ASSUME NEW a \in Addrs, elems["ban6"][Host(a)] # 0
                 PROVE  Fixed(<<a, prefix>>)
      BY DEF Aligned
    <3> DEFINE n == <<a, prefix>>
    <3>1. n \in Nets /\ n[1] = a /\ n[2] = prefix
      BY <1>0, NftAssumption DEF Nets, TypeOK
    <3> HIDE DEF n
    <3>2. Listing("ban6")[n] > 0
      BY <1>0, <3>1, ListingIs DEF IsHash
    <3>3. Fixed(n)
      BY <1>1, <3>1, <3>2 DEF Off, Entries, Fixed
    <3> QED
      BY <3>3 DEF n
  <2>3. World' /\ Aligned'
    BY <1>0, <2>1, <2>2, WorldSame DEF kernel, world, said
  <2>4. KernelType' /\ running' \in BOOLEAN /\ ~running' /\ kind' = "hash" /\ mask' = prefix
    BY <1>0, <2>1 DEF TypeOK, KernelType, kernel
  <2> QED
    BY <1>0, <2>1, <2>3, <2>4, Going
<1>2. CASE Off(Listing("ban6")) # {}
  <2>1. /\ listed' = Listing("ban6") /\ pc' = "move"
        /\ UNCHANGED <<kernel, world, said, prefix, running, todo, rebuilt, next>>
    BY <1>2 DEF Rekey
  <2> QED
    BY <1>0, <2>1, ReadsOK
<1> QED
  BY <1>1, <1>2

LEMMA MoveOK == ASSUME NInv, Move PROVE NInv'
<1>0. /\ pc = "move" /\ TypeOK /\ World /\ Stage /\ ReadOK /\ ~running
      /\ kind = "hash" /\ mask = prefix /\ "ban6" \in Sets
  BY DEF Move, At, NInv, Stage, Sets
<1> DEFINE off  == Off(listed)
           gone == {Host(n[1]) : n \in off}
           free == {n \in off : listed[Trunc(n)] = 0}
<1>1. \/ \E f \in Firsts(free) :
            /\ Fits(Deleted("ban6", gone), f)
            /\ elems' = Added(Deleted("ban6", gone), f)
            /\ UNCHANGED <<kind, torn, mask>>
            /\ GoesOn("list", "ban6", FALSE)
      \/ Fails /\ UNCHANGED kernel
  BY DEF Move
<1>2. CASE Fails /\ UNCHANGED kernel
  BY <1>0, <1>2, FailsOK
<1>3. ASSUME NEW f \in Firsts(free),
             Fits(Deleted("ban6", gone), f),
             elems' = Added(Deleted("ban6", gone), f),
             UNCHANGED <<kind, torn, mask>>,
             GoesOn("list", "ban6", FALSE)
      PROVE  NInv'
  <2>1. /\ pc' = "list" /\ todo' = "ban6" /\ rebuilt' = FALSE /\ listed' = None
        /\ UNCHANGED <<prefix, running, next, world, said>>
    BY <1>3 DEF GoesOn
  <2>2. UNCHANGED <<kind, now, prefix, asked, lapsed, lifted>>
    BY <1>3, <2>1 DEF world, said
  <2>3. World' /\ Aligned'
    BY <1>0, <1>3, <2>2, WorldMoved
  <2>4. free \in SUBSET Nets
    BY DEF Off, Entries
  <2>5. elems' \in [Sets -> [Nets -> Nat]]
    BY <1>0, <1>3, <2>4, MoveType
  <2>6. KernelType' /\ running' \in BOOLEAN /\ ~running' /\ kind' = "hash" /\ mask' = prefix
    BY <1>0, <1>3, <2>1, <2>5 DEF TypeOK, KernelType
  <2> QED
    BY <1>0, <2>1, <2>3, <2>6, Going
<1> QED
  BY <1>1, <1>2, <1>3

LEMMA AgainOK == ASSUME NInv, Again PROVE NInv'
BY SetUpOK DEF Again, At

\* The listing goes on, or the daemon has its answer.
LEMMA NextSetOK ==
    ASSUME NInv, World', KernelType', kind' = "hash", mask' = prefix, Aligned',
           \/ NextSet
           \/ Back(FALSE) /\ UNCHANGED kernel
    PROVE  NInv'
<1>0. TypeOK /\ "ban6" \in Sets /\ "bannet6" \in Sets
  BY DEF NInv, Sets
<1>1. CASE GoesOn("list", "bannet6", FALSE)
  <2>1. /\ pc' = "list" /\ todo' = "bannet6" /\ rebuilt' = FALSE /\ listed' = None
        /\ UNCHANGED <<prefix, running, next, world, said>>
    BY <1>1 DEF GoesOn
  <2>2. running' \in BOOLEAN
    BY <1>0, <2>1 DEF TypeOK
  <2> QED
    BY <1>0, <2>1, <2>2, Going
<1>2. ASSUME NEW ok \in BOOLEAN, Back(ok) PROVE NInv'
  <2> DEFINE p == IF running' THEN "up" ELSE "down"
  <2>1. /\ pc' = p /\ todo' = "ban6" /\ rebuilt' = rebuilt /\ listed' = None
        /\ UNCHANGED <<prefix, next, world, said>>
        /\ running' = (running \/ ok)
    BY <1>2 DEF Back
  <2>2. running' \in BOOLEAN /\ rebuilt \in BOOLEAN
    BY <1>0, <2>1 DEF TypeOK
  <2>3. p \in {"up", "down"} /\ (running' => p = "up")
    OBVIOUS
  <2> HIDE DEF p
  <2> QED
    BY <1>0, <2>1, <2>2, <2>3, Going
<1> QED
  BY <1>1, <1>2 DEF NextSet

LEMMA ListOK == ASSUME NInv, List PROVE NInv'
<1>0. /\ pc = "list" /\ TypeOK /\ World /\ Stage /\ Aligned
      /\ kind = "hash" /\ mask = prefix /\ todo \in Sets
  BY DEF List, At, NInv, Stage, TypeOK
<1>1. CASE Torn(todo)
  <2>1. /\ listed' = Listing(todo) /\ pc' = "repair"
        /\ UNCHANGED <<kernel, world, said, prefix, running, todo, rebuilt, next>>
    BY <1>1 DEF List, Reads
  <2> QED
    BY <1>0, <2>1, ReadsOK
<1>2. CASE NextSet /\ UNCHANGED kernel
  <2>1. UNCHANGED <<prefix, world, said>>
    BY <1>2 DEF NextSet, GoesOn, Back
  <2>2. World' /\ Aligned'
    BY <1>0, <1>2, <2>1, WorldSame DEF kernel, world, said
  <2>3. KernelType' /\ kind' = "hash" /\ mask' = prefix
    BY <1>0, <1>2 DEF TypeOK, KernelType, kernel
  <2> QED
    BY <1>2, <2>2, <2>3, NextSetOK
<1> QED
  BY <1>1, <1>2 DEF List

LEMMA RepairOK == ASSUME NInv, Repair PROVE NInv'
<1>0. /\ pc = "repair" /\ TypeOK /\ World /\ Stage /\ ReadOK /\ Aligned
      /\ kind = "hash" /\ mask = prefix /\ todo \in Sets
  BY DEF Repair, At, NInv, Stage, TypeOK
<1>1. CASE Recreated(todo, prefix) /\ NextSet
  <2>1. UNCHANGED <<prefix, world, said>> /\ mask' = prefix
    BY <1>1 DEF NextSet, GoesOn, Back, Recreated
  <2>2. World' /\ kind' = "hash" /\ Aligned'
    BY <1>0, <1>1, <2>1, WorldRecreated DEF world, said
  <2>3. prefix \in 0 .. Width
    BY <1>0, NftAssumption DEF TypeOK
  <2>4. KernelType'
    BY <1>0, <1>1, <2>3, RecreatedType DEF KernelType
  <2> QED
    BY <1>1, <2>1, <2>2, <2>4, NextSetOK
<1>2. CASE Back(FALSE) /\ UNCHANGED kernel
  <2>1. UNCHANGED <<prefix, world, said>>
    BY <1>2 DEF Back
  <2>2. World' /\ Aligned'
    BY <1>0, <1>2, <2>1, WorldSame DEF kernel, world, said
  <2>3. KernelType' /\ kind' = "hash" /\ mask' = prefix
    BY <1>0, <1>2 DEF TypeOK, KernelType, kernel
  <2> QED
    BY <1>2, <2>2, <2>3, NextSetOK
<1> QED
  BY <1>1, <1>2 DEF Repair

LEMMA AskOK == ASSUME NInv, Ask PROVE NInv'
<1>0. /\ pc = "up" /\ TypeOK /\ World /\ Stage /\ Aligned
      /\ kind = "hash" /\ mask = prefix /\ todo \in Sets
  BY DEF Ask, At, NInv, Stage, TypeOK
<1>1. /\ pc' = "list" /\ todo' = todo /\ rebuilt' = rebuilt /\ listed' = None
      /\ UNCHANGED <<prefix, running, next, world, said, kernel>>
  BY DEF Ask, Goes
<1>2. World' /\ Aligned'
  BY <1>0, <1>1, WorldSame DEF kernel, world, said
<1>3. KernelType' /\ running' \in BOOLEAN /\ rebuilt \in BOOLEAN /\ kind' = "hash" /\ mask' = prefix
  BY <1>0, <1>1 DEF TypeOK, KernelType, kernel
<1> QED
  BY <1>0, <1>1, <1>2, <1>3, Going

LEMMA BanOK == ASSUME NInv, Ban PROVE NInv'
<1>0. /\ pc = "up" /\ TypeOK /\ World /\ Stage /\ Aligned /\ kind = "hash" /\ mask = prefix
      /\ pc' = "add"
  BY DEF Ban, At, NInv, Stage
<1>1. PICK n \in BanNets, ttl \in 1 .. MaxTtl :
          /\ next' = <<n, ttl>> /\ Delete(n)
          /\ lapsed' = IF elems' # elems THEN lapsed \cup {n} ELSE lapsed
          /\ lifted' = lifted \ {n}
          /\ asked' = asked
  BY DEF Ban
<1>2. /\ elems' \in [Sets -> [Nets -> Nat]] /\ faults' \in 0 .. MaxFaults
      /\ UNCHANGED <<kind, torn, mask, now, prefix, running, todo, rebuilt, listed>>
  BY <1>0, <1>1, DeleteType
<1>3. World' /\ Aligned'
  <2>1. n \in lapsed' \/ (elems' = elems /\ n \notin lapsed)
    BY <1>1
  <2> QED
    BY <1>0, <1>1, <2>1, WorldDeleted
<1>4. TypeOK'
  BY <1>0, <1>1, <1>2 DEF TypeOK
<1>5. Stage'
  BY <1>0, <1>1, <1>2, <1>3 DEF Stage
<1>6. ReadOK'
  BY <1>0 DEF ReadOK
<1> QED
  BY <1>3, <1>4, <1>5, <1>6 DEF NInv

LEMMA AddOK == ASSUME NInv, Add PROVE NInv'
<1>0. /\ pc = "add" /\ pc' = "up" /\ next' = <<>> /\ next # <<>>
      /\ TypeOK /\ World /\ Stage /\ kind = "hash" /\ mask = prefix
      /\ UNCHANGED <<kind, torn, mask, world, prefix, running, todo, rebuilt, listed, lifted>>
  BY DEF Add, At, NInv, Stage
<1>1. World' /\ Aligned'
  BY <1>0, WorldAdded
<1>2. elems' \in [Sets -> [Nets -> Nat]] /\ asked' \in [Nets -> Nat] /\ lapsed' \subseteq lapsed
  <2>1. now + next[2] \in Nat /\ next[1] \in Nets
    BY <1>0, NftAssumption DEF TypeOK
  <2>2. Place(next[1])[1] \in Sets /\ Place(next[1])[2] \in Nets
    BY <2>1, PlaceType
  <2>3. elems \in [Sets -> [Nets -> Nat]] /\ asked \in [Nets -> Nat]
    BY <1>0 DEF TypeOK
  <2> DEFINE p == Place(next[1])
             end == now + next[2]
  <2>4. \/ UNCHANGED <<elems, asked>>
        \/ elems' = [elems EXCEPT ![p[1]][p[2]] = end] /\ asked' = [asked EXCEPT ![next[1]] = end]
    BY DEF Add
  <2> HIDE DEF p, end
  <2>5. end \in Nat /\ p[1] \in Sets /\ p[2] \in Nets
    BY <2>1, <2>2 DEF p, end
  <2>6. lapsed' \subseteq lapsed
    BY DEF Add
  <2> QED
    BY <2>1, <2>3, <2>4, <2>5, <2>6
<1>3. TypeOK'
  BY <1>0, <1>2 DEF TypeOK, world
<1>4. Stage' /\ ReadOK'
  BY <1>0, <1>1 DEF Stage, ReadOK
<1> QED
  BY <1>1, <1>3, <1>4 DEF NInv

LEMMA UnbanOK == ASSUME NInv, Unban PROVE NInv'
<1>0. /\ pc = "up" /\ TypeOK /\ World /\ Stage /\ Aligned /\ kind = "hash" /\ mask = prefix
      /\ UNCHANGED <<next, pc>>
  BY DEF Unban, At, NInv, Stage
<1>1. PICK n \in BanNets :
          /\ Delete(n)
          /\ asked' = [asked EXCEPT ![n] = 0]
          /\ lapsed' = lapsed \ {n}
          /\ lifted' = IF faults' # faults \/ Place(n) \in torn \/ Strays(n)
                       THEN lifted \ {n} ELSE lifted \cup {n}
  BY DEF Unban
<1>2. /\ elems' \in [Sets -> [Nets -> Nat]] /\ asked' \in [Nets -> Nat] /\ faults' \in 0 .. MaxFaults
      /\ UNCHANGED <<kind, torn, mask, now, prefix, running, todo, rebuilt, listed>>
  BY <1>0, <1>1, DeleteType DEF TypeOK
<1>3. n \in lifted' => elems' = Deleted(Place(n)[1], {Place(n)[2]}) /\ ~Strays(n)
  <2> SUFFICES ASSUME n \in lifted'
               PROVE  elems' = Deleted(Place(n)[1], {Place(n)[2]}) /\ ~Strays(n)
    OBVIOUS
  <2>1. faults' = faults /\ Place(n) \notin torn /\ ~Strays(n) /\ faults \in Nat
    BY <1>0, <1>1 DEF TypeOK
  <2>2. elems' = Removes(n)
    BY <1>1, <2>1 DEF Delete, Fault
  <2> QED
    BY <2>1, <2>2 DEF Removes
<1>4. World' /\ Aligned'
  <2>1. asked'[n] = 0
    BY <1>0, <1>1, AskedFixed DEF TypeOK
  <2> QED
    BY <1>0, <1>1, <1>3, <2>1, WorldDeleted
<1>5. TypeOK'
  BY <1>0, <1>1, <1>2 DEF TypeOK
<1>6. Stage'
  BY <1>0, <1>2, <1>4 DEF Stage
<1>7. ReadOK'
  BY <1>0 DEF ReadOK
<1> QED
  BY <1>4, <1>5, <1>6, <1>7 DEF NInv

LEMMA CallFailsOK == ASSUME NInv, CallFails PROVE NInv'
<1>0. /\ TypeOK /\ World /\ Stage
      /\ faults' \in 0 .. MaxFaults
      /\ pc \notin {"down", "up"}
      /\ pc' = CASE pc = "setup" -> "check"
                 [] pc = "check" -> "read"
                 [] OTHER -> IF running THEN "up" ELSE "down"
      /\ todo' = IF pc = "check" THEN todo ELSE "ban6"
      /\ rebuilt' \in BOOLEAN
      /\ listed' = None /\ next' = <<>>
      /\ UNCHANGED <<kernel, now, prefix, running, said>>
  BY NftAssumption DEF NInv, CallFails, Fault, TypeOK
<1>1. World' /\ (Aligned => Aligned')
  BY <1>0, WorldSame DEF kernel, said
<1>2. pc' \in {"check", "read", "up", "down"} /\ todo' \in Sets
      /\ (todo' = "bannet6" => todo = "bannet6")
  BY <1>0 DEF TypeOK, Sets
<1>3. TypeOK'
  BY <1>0, <1>2, NoneType DEF TypeOK, kernel, said
<1>4. Stage'
  <2>1. running => pc \in {"list", "repair", "up", "add"} /\ kind = "hash" /\ mask = prefix /\ Aligned
    BY <1>0 DEF Stage
  <2>2. (running => pc' = "up") /\ (pc' = "up" => running)
    BY <1>0, <2>1
  <2> QED
    BY <1>0, <1>1, <1>2, <2>1, <2>2 DEF Stage, kernel
<1>5. ReadOK'
  BY <1>2 DEF ReadOK
<1> QED
  BY <1>1, <1>3, <1>4, <1>5 DEF NInv

LEMMA StopOK == ASSUME NInv, Stop PROVE NInv'
<1>0. /\ TypeOK /\ World /\ Stage /\ faults' \in 0 .. MaxFaults
      /\ pc' = "down" /\ running' = FALSE
      /\ todo' = "ban6" /\ rebuilt' = FALSE /\ listed' = None /\ next' = <<>>
      /\ UNCHANGED <<kernel, now, prefix, said>>
  BY NftAssumption DEF NInv, Stop, Fault, TypeOK
<1>1. World'
  BY <1>0, WorldSame DEF kernel, said
<1>2. TypeOK'
  BY <1>0, NoneType DEF TypeOK, kernel, said, Sets
<1>3. Stage' /\ ReadOK'
  BY <1>0 DEF Stage, ReadOK
<1> QED
  BY <1>1, <1>2, <1>3 DEF NInv

LEMMA CorruptOK == ASSUME NInv, Corrupt PROVE NInv'
<1>0. /\ TypeOK /\ World /\ Stage /\ ReadOK /\ faults' \in 0 .. MaxFaults
      /\ torn' \subseteq Sets \X Nets
      /\ UNCHANGED <<kind, elems, mask, now, daemon, pc, said>>
  <2>1. TypeOK /\ World /\ Stage /\ ReadOK /\ UNCHANGED <<kind, elems, mask, now, daemon, pc, said>>
    BY DEF NInv, Corrupt
  <2>2. faults' \in 0 .. MaxFaults
    BY <2>1, NftAssumption DEF Corrupt, Fault, TypeOK
  <2>3. PICK s \in Sets, a \in Addrs : torn' = torn \cup {<<s, Host(a)>>}
    BY DEF Corrupt
  <2>4. torn' \subseteq Sets \X Nets
    BY <2>1, <2>3, HostType DEF TypeOK
  <2> QED
    BY <2>1, <2>2, <2>4
<1>1. World' /\ (Aligned => Aligned')
  BY <1>0, WorldSame DEF daemon, said
<1>2. TypeOK'
  BY <1>0 DEF TypeOK, daemon, said
<1>3. Stage'
  BY <1>0, <1>1 DEF Stage, daemon, said
<1>4. ReadOK'
  BY <1>0 DEF ReadOK, Source, Listing, IsHash, Host, Entries, EntryShape, EntryOK, Fixed, Trunc, daemon, said
<1> QED
  BY <1>1, <1>2, <1>3, <1>4 DEF NInv

LEMMA ClockOK == ASSUME NInv, Clock PROVE NInv'
<1>0. /\ TypeOK /\ Stage
      /\ now' = now + 1
      /\ elems' = [s \in Sets |-> [n \in Nets |-> IF elems[s][n] <= now' THEN 0 ELSE elems[s][n]]]
      /\ torn' \subseteq torn
      /\ asked' = [n \in Nets |-> IF asked[n] <= now' THEN 0 ELSE asked[n]]
      /\ lapsed' \subseteq lapsed
      /\ UNCHANGED <<kind, mask, faults, daemon, pc, lifted>>
  BY DEF NInv, Clock
<1>1. World' /\ (Aligned => Aligned') /\ ReadOK'
  BY WorldClock DEF NInv
<1>2. now' \in Nat /\ elems' \in [Sets -> [Nets -> Nat]] /\ asked' \in [Nets -> Nat]
  BY <1>0 DEF TypeOK
<1>3. TypeOK'
  BY <1>0, <1>2 DEF TypeOK, daemon
<1>4. Stage'
  BY <1>0, <1>1 DEF Stage, daemon
<1> QED
  BY <1>1, <1>3, <1>4 DEF NInv

LEMMA StepOK == ASSUME NInv, [Next]_vars PROVE NInv'
<1>1. CASE UNCHANGED vars
  <2>1. /\ UNCHANGED <<kind, elems, torn, mask, now, faults, prefix, running, pc, todo, rebuilt>>
        /\ UNCHANGED <<listed, next, asked, lapsed, lifted>>
    BY <1>1 DEF vars
  <2>2. World' /\ (Aligned => Aligned')
    BY <2>1, WorldSame DEF NInv
  <2>3. TypeOK' /\ Stage'
    BY <2>1, <2>2 DEF NInv, TypeOK, Stage
  <2>4. ReadOK'
    BY <2>1 DEF NInv, ReadOK, Source, Listing, IsHash, Host, Entries, EntryShape, EntryOK, Fixed, Trunc
  <2> QED
    BY <2>2, <2>3, <2>4 DEF NInv
<1> QED
  BY <1>1, StartOK, SetupOK, CheckOK, ReadStaleOK, RecreateOK, RekeyOK, MoveOK, ListOK, RepairOK,
     AskOK, BanOK, AddOK, UnbanOK, CallFailsOK, StopOK, CorruptOK, ClockOK, AgainOK
     DEF Next, StartStep

LEMMA Invariant == Spec => []NInv
BY InitOK, StepOK, PTL DEF Spec

-----------------------------------------------------------------------------
(* The theorems.                                                           *)

\* Every variable has its type: what is read of a set is at most a ban's length, and what
\* is about to be added is a ban.
THEOREM TypeCorrect == Spec => []TypeOK
BY Invariant, PTL DEF NInv

LEMMA HeldShut == ASSUME NInv PROVE InForce
<1> SUFFICES ASSUME running, NEW n \in Nets, n \notin lapsed, asked[n] > now,
                    NEW a \in Addrs, Covers(n, Host(a))
             PROVE  Dropped(a)
  BY DEF InForce
<1>1. TypeOK /\ World /\ Stage /\ kind = "hash" /\ mask = prefix /\ Aligned /\ now \in Nat
  BY DEF NInv, Stage, TypeOK
<1>2. Trunc(<<a, n[2]>>) = Trunc(n)
  BY DEF Covers, Host
<1>3. asked[n] \in Nat /\ asked[n] # 0 /\ Held(n)
  BY <1>1, Times DEF World, AskedHeld
<1>4. mask > 0
  BY <1>1, NftAssumption DEF TypeOK
\* What is in bannet6 shuts out all that it covers.
<1>5. elems["bannet6"][n] >= asked[n] => Dropped(a)
  <2> SUFFICES ASSUME elems["bannet6"][n] >= asked[n] PROVE Dropped(a)
    OBVIOUS
  <2>1. "bannet6" \in Sets /\ ~IsHash("bannet6") /\ elems["bannet6"][n] \in Nat
    BY <1>1, Times DEF Sets, IsHash
  <2>2. elems["bannet6"][n] > now
    BY <1>1, <1>3, <2>1
  <2> QED
    BY <1>4, <2>1, <2>2 DEF Dropped
<1>6. CASE n[2] # prefix
  BY <1>1, <1>3, <1>5, <1>6 DEF Held
\* In the hash there is one element, on the boundary that the rules look up.
<1>7. CASE n[2] = prefix
  <2>1. ASSUME NEW b \in Addrs, InHash(b, n) PROVE Dropped(a)
    <3>1. Host(b) \in Nets /\ "ban6" \in Sets /\ elems["ban6"][Host(b)] # 0
      BY <2>1, HostType DEF Sets, InHash
    <3>2. elems["ban6"][Host(b)] > now
      BY <1>1, <3>1 DEF World, Timely
    <3>3. Fixed(<<b, prefix>>) /\ Trunc(<<b, prefix>>) = n
      BY <1>1, <2>1, <3>1 DEF Aligned, InHash
    <3>4. n = <<b, prefix>> /\ Trunc(n) = n
      BY <3>3 DEF Fixed
    <3>5. Trunc(<<a, mask>>)[1] = b
      BY <1>1, <1>2, <1>7, <3>4
    <3> QED
      BY <1>1, <1>4, <3>2, <3>5 DEF Dropped, IsHash
  <2> QED
    BY <1>1, <1>3, <1>5, <1>7, <2>1 DEF Held
<1> QED
  BY <1>6, <1>7

\* What the daemon was made to ban is shut out while it runs, to the last address and
\* until the ban ends, whatever starts, upgrades, changes of the prefix, moves, repairs and
\* failing calls of nft came in between, but for a renewal that deleted the ban and then failed.
THEOREM StaysShut == Spec => []InForce
BY Invariant, HeldShut, PTL

LEMMA LiftedGone == ASSUME NInv PROVE UnbanLifts
BY Unlisted DEF NInv, UnbanLifts

\* What was unbanned, and whose deletion reached it, is in no set, and no script that puts
\* back what was read earlier brings it back.
THEOREM StaysLifted == Spec => []UnbanLifts
BY Invariant, LiftedGone, PTL
=============================================================================
