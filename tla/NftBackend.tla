------------------------------ MODULE NftBackend ------------------------------
(***************************************************************************)
(* The nftables backend (minsec-core/src/backend/nft.rs): the sets of bans *)
(* and the rules that use them, in the kernel, and a daemon that starts    *)
(* over what an earlier one left there, of another version or with another *)
(* ipv6_prefix.  Each call of nft is a step; a script is one transaction.  *)
(* Bans are of IPv6; those of IPv4 are the same with a prefix that never   *)
(* changes.                                                                *)
(***************************************************************************)
EXTENDS Naturals, FiniteSets

CONSTANTS Width,       \* bits of an address
          Prefixes,    \* what ipv6_prefix may be
          BanNets,     \* networks that get banned
          MaxTtl,      \* bound: the length of a ban
          MaxTime,     \* bound: the time by which a ban asked for would end
          MaxFaults    \* bound: failing calls, crashes, corruptions

Addrs == 0 .. 2^Width - 1

\* Networks, by address and prefix length; those as listed may have host bits.
Nets == Addrs \X (0 .. Width)

Trunc(n) == <<n[1] - (n[1] % 2^(Width - n[2])), n[2]>>

ASSUME NftAssumption ==
    /\ Width \in Nat \ {0} /\ \A i \in 0 .. Width : 2^i \in Nat \ {0}
    /\ Prefixes \subseteq 1 .. Width
    /\ BanNets \subseteq {n \in Nets : n = Trunc(n)}
    /\ MaxTtl \in Nat \ {0} /\ MaxTime \in Nat /\ MaxFaults \in Nat

VARIABLES
    kind,      \* what the set ban6 is: none, the hash of this version, or an older interval set
    elems,     \* per set and element, when it ends: zero if it is not there
    torn,      \* elements, with their set, that have become a range which is no network
    mask,      \* the prefix by which the rules look up ban6; zero if the chains are empty
    now, faults,
    prefix,    \* the daemon's ipv6_prefix
    running,   \* its start is complete
    pc, todo, rebuilt,
    listed,    \* what it read of a set: remaining time per network
    next,      \* the ban it is about to add, with its length
    asked,     \* auxiliary: until when each network is to be banned
    lapsed,    \* auxiliary: networks whose renewal has deleted the ban and not put it back
    lifted     \* auxiliary: networks unbanned, and not banned since

kernel == <<kind, elems, torn, mask>>
world  == <<now, faults>>
daemon == <<prefix, running, todo, rebuilt, listed, next>>
said   == <<asked, lapsed, lifted>>
vars   == <<kind, elems, torn, mask, now, faults, prefix, running, pc, todo, rebuilt,
            listed, next, asked, lapsed, lifted>>

Sets == {"ban6", "bannet6"}
None == [n \in Nets |-> 0]
Covers(n, m) == m[2] >= n[2] /\ Trunc(<<m[1], n[2]>>) = Trunc(n)
Overlap(n, m) == Covers(n, m) \/ Covers(m, n)
Host(a) == <<a, Width>>

\* A set without intervals: its elements are addresses.
IsHash(s) == s = "ban6" /\ kind = "hash"

\* A packet from `a` is dropped.
Dropped(a) ==
    /\ mask > 0
    /\ \/ IsHash("ban6") /\ elems["ban6"][Host(Trunc(<<a, mask>>)[1])] > now
       \/ \E s \in Sets, n \in Nets : ~IsHash(s) /\ elems[s][n] > now /\ Covers(n, Host(a))

\* Where the daemon puts a ban of `n`.
Place(n) == IF n[2] = prefix THEN <<"ban6", Host(Trunc(n)[1])>> ELSE <<"bannet6", n>>

\* An earlier prefix put a ban of `n` where this one does not look for it.
Strays(n) == n[2] = prefix /\ elems["bannet6"][n] > now

\* A first start, or one over the set of an older version, with bans on it.
Init ==
    /\ kind \in {"none", "interval"}
    /\ \E b \in SUBSET BanNets :
        /\ kind = "none" => b = {}
        /\ \A m, n \in b : Overlap(m, n) => m = n
        /\ asked = [n \in Nets |-> IF n \in b THEN MaxTtl ELSE 0]
        /\ elems = [s \in Sets |-> IF s = "ban6" THEN asked ELSE None]
    /\ torn = {}
    /\ mask = IF kind = "none" THEN 0 ELSE Width
    /\ now = 0 /\ faults = 0
    /\ prefix \in Prefixes
    /\ running = FALSE
    /\ pc = "down" /\ todo = "ban6" /\ rebuilt = FALSE
    /\ listed = None
    /\ next = <<>>
    /\ lapsed = {} /\ lifted = {}

At(p) == pc = p

Fault == faults < MaxFaults /\ faults' = faults + 1

-----------------------------------------------------------------------------
(* What the scripts and listings do.                                       *)

\* A hash gives addresses, which the daemon reads as networks of its own prefix.
\* Of a torn element it takes the first address.
Listing(s) ==
    [n \in Nets |->
        LET k == IF IsHash(s) THEN Host(n[1]) ELSE n
        IN IF (IsHash(s) => n[2] = prefix) /\ elems[s][k] > now THEN elems[s][k] - now ELSE 0]

Entries(l) == {n \in Nets : l[n] > 0}

\* One entry for each place: the first that was listed.
Firsts(ns) ==
    {f \in SUBSET ns : \A n \in ns : Cardinality({m \in f : Place(m) = Place(n)}) = 1}

\* Nothing may be added over what is there, nor over one another.
Fits(es, ns) ==
    \A n \in ns :
        LET s == Place(n)[1]
            k == Place(n)[2]
        IN /\ \A m \in Nets : es[s][m] > 0 => ~Overlap(k, m)
           /\ \A m \in ns \ {n} : Place(m)[1] = s => ~Overlap(k, Place(m)[2])

\* Each keeps the time it had left.
Added(es, ns) ==
    [s \in Sets |-> [k \in Nets |->
        IF \E n \in ns : Place(n) = <<s, k>>
        THEN now + listed[CHOOSE n \in ns : Place(n) = <<s, k>>]
        ELSE es[s][k]]]

\* The set `s` is deleted and made anew.
Emptied(s) == [elems EXCEPT ![s] = None]

\* recreate_script, then the rules for prefix `m`; without them the chains stay empty.
Recreated(s, m) ==
    \E f \in Firsts(Entries(listed)) :
        /\ Fits(Emptied(s), f)
        /\ elems' = Added(Emptied(s), f)
        /\ kind' = IF s = "ban6" THEN "hash" ELSE kind
        /\ torn' = {t \in torn : t[1] # s}
        /\ mask' = m

CannotRecreate(s) == \A f \in Firsts(Entries(listed)) : ~Fits(Emptied(s), f)

Deleted(s, ks) == [elems EXCEPT ![s] = [k \in Nets |-> IF k \in ks THEN 0 ELSE @[k]]]

\* setup_script: it fails as a whole on a set of another kind.
SetUp ==
    /\ kind # "interval"
    /\ kind' = "hash"
    /\ mask' = prefix
    /\ UNCHANGED <<elems, torn>>

-----------------------------------------------------------------------------
(* A start.                                                                *)

Goes(p) ==
    /\ pc' = p /\ listed' = None
    /\ UNCHANGED <<prefix, running, todo, rebuilt, next, world, said>>

GoesOn(p, s, r) ==
    /\ pc' = p /\ todo' = s /\ rebuilt' = r /\ listed' = None
    /\ UNCHANGED <<prefix, running, next, world, said>>

\* The smallest of the ends that are to come; zero if there is none.
Soonest(ends) ==
    LET first == {e \in ends : e > now /\ \A f \in ends : f > now => e <= f}
    IN IF first = {} THEN 0 ELSE CHOOSE e \in first : TRUE

\* When each element that prefix `p` makes one of network `n` ends.
EndsWithin(n, p) ==
    {elems["bannet6"][n]} \cup
    {elems["ban6"][Host(a)] : a \in {b \in Addrs : n[2] = p /\ Trunc(<<b, p>>) = n}}

\* An address in the hash is a network of whatever prefix is now configured
\* (nft.rs:262-265): the whole of a wider one is banned, only the first of several
\* narrower ones, and of bans that become one, one is kept: it may be the first to end.
Start ==
    /\ At("down")
    /\ pc' = "setup"
    /\ prefix' \in Prefixes
    /\ IF kind = "hash" /\ prefix' # prefix
       THEN /\ asked' = [n \in Nets |-> IF n[2] \in {prefix, prefix'}
                                        THEN Soonest(EndsWithin(n, prefix')) ELSE asked[n]]
            /\ lapsed' = {n \in lapsed : n[2] \notin {prefix, prefix'}}
            /\ lifted' = {n \in lifted : n[2] # prefix'}
       ELSE UNCHANGED said
    /\ UNCHANGED <<kernel, world, running, todo, rebuilt, listed, next>>

Fails == GoesOn("down", "ban6", FALSE)

\* Mutant: a set of another kind is an error.
SetupOrFail ==
    /\ At("setup")
    /\ \/ SetUp /\ Goes("rekey")
       \/ kind = "interval" /\ Fails /\ UNCHANGED kernel

Setup ==
    /\ At("setup")
    /\ \/ SetUp /\ Goes("rekey")
       \/ /\ kind = "interval"
          /\ GoesOn("check", "ban6", FALSE)
          /\ UNCHANGED kernel

\* After the last set: none to blame, or once more.
AfterSet(s, r) ==
    IF s = "ban6" THEN GoesOn("check", "bannet6", r)
    ELSE GoesOn(IF r THEN "again" ELSE "down", "ban6", FALSE)

Check ==
    /\ At("check")
    /\ IF todo = "ban6" /\ kind = "interval"
       THEN Goes("read") /\ UNCHANGED kernel
       ELSE /\ AfterSet(todo, rebuilt)
            /\ kind' = IF todo = "ban6" THEN "hash" ELSE kind
            /\ UNCHANGED <<elems, torn, mask>>

Reads(p) ==
    /\ listed' = Listing(todo)
    /\ pc' = p
    /\ UNCHANGED <<kernel, world, said, prefix, running, todo, rebuilt, next>>

\* A set that is not there cannot be listed.
ReadStale ==
    /\ At("read")
    /\ \/ kind # "none" /\ Reads("recreate")
       \/ kind = "none" /\ Fails /\ UNCHANGED kernel

\* Mutant: the second setup is left to the next start.
RecreateAndRekey ==
    /\ At("recreate")
    /\ \/ Recreated(todo, 0) /\ Goes("rekey")
       \/ CannotRecreate(todo) /\ Fails /\ UNCHANGED kernel

Recreate ==
    /\ At("recreate")
    /\ \/ Recreated(todo, 0) /\ AfterSet(todo, TRUE)
       \/ CannotRecreate(todo) /\ Fails /\ UNCHANGED kernel

Again ==
    /\ At("again")
    /\ SetUp /\ Goes("rekey")

\* Elements of ban6 off the boundary of the prefix.
Off(l) == {n \in Entries(l) : n # Trunc(n)}

Rekey ==
    /\ At("rekey")
    /\ IF Off(Listing("ban6")) = {}
       THEN GoesOn("list", "ban6", FALSE) /\ UNCHANGED kernel
       ELSE /\ listed' = Listing("ban6")
            /\ pc' = "move"
            /\ UNCHANGED <<kernel, world, said, prefix, running, todo, rebuilt, next>>

\* One transaction: an element that has ended since cannot be deleted, and then
\* nothing is done.
Move ==
    /\ At("move")
    /\ LET off  == Off(listed)
           gone == {Host(n[1]) : n \in off}
           free == {n \in off : listed[Trunc(n)] = 0}
           ok   == \A k \in gone : elems["ban6"][k] > now
       IN \/ \E f \in Firsts(free) :
                /\ ok /\ Fits(Deleted("ban6", gone), f)
                /\ elems' = Added(Deleted("ban6", gone), f)
                /\ UNCHANGED <<kind, torn, mask>>
                /\ GoesOn("list", "ban6", FALSE)
          \/ /\ ~ok \/ \A f \in Firsts(free) : ~Fits(Deleted("ban6", gone), f)
             /\ Fails /\ UNCHANGED kernel

-----------------------------------------------------------------------------
(* Listing: at the end of a start, and when a caller asks.                 *)

Torn(s) == \E n \in Nets : <<s, n>> \in torn

\* The daemon has its answer, or its error: it runs on, or is there now, or ends.
Back(ok) ==
    /\ running' = (running \/ ok)
    /\ pc' = IF running' THEN "up" ELSE "down"
    /\ todo' = "ban6" /\ listed' = None
    /\ UNCHANGED <<prefix, rebuilt, next, world, said>>

NextSet ==
    IF todo = "ban6" THEN GoesOn("list", "bannet6", FALSE) ELSE Back(TRUE)

List ==
    /\ At("list")
    /\ IF Torn(todo) THEN Reads("repair") ELSE NextSet /\ UNCHANGED kernel

\* In one transaction with the rules.
Repair ==
    /\ At("repair")
    /\ \/ Recreated(todo, prefix) /\ NextSet
       \/ CannotRecreate(todo) /\ Back(FALSE) /\ UNCHANGED kernel

Ask == At("up") /\ Goes("list") /\ UNCHANGED kernel

-----------------------------------------------------------------------------
(* Bans.                                                                   *)

\* Mutant: only where most bans are.
RemovesHash(n) == IF n[2] = prefix THEN Deleted("ban6", {Place(n)[2]}) ELSE elems

\* A torn element has no end to delete it by.
Removes(n) == IF Place(n) \in torn THEN elems ELSE Deleted(Place(n)[1], {Place(n)[2]})

\* Whether the call works is not looked at.
Delete(n) ==
    /\ \/ elems' = Removes(n) /\ UNCHANGED faults
       \/ UNCHANGED elems /\ Fault
    /\ UNCHANGED <<kind, torn, mask, now, prefix, running, todo, rebuilt, listed>>

\* The earlier ban of the network goes first.
Ban ==
    /\ At("up")
    /\ \E n \in BanNets, ttl \in 1 .. MaxTtl :
        /\ now + ttl <= MaxTime
        /\ next' = <<n, ttl>>
        /\ Delete(n)
        /\ lapsed' = IF elems' # elems THEN lapsed \cup {n} ELSE lapsed
        /\ lifted' = lifted \ {n}
    /\ pc' = "add"
    /\ UNCHANGED asked

\* An interval set takes nothing that overlaps.
Add ==
    /\ At("add")
    /\ pc' = "up" /\ next' = <<>>
    /\ LET n == next[1]
           end == now + next[2]
       IN IF Fits(elems, {n})
          THEN /\ elems' = [elems EXCEPT ![Place(n)[1]][Place(n)[2]] = end]
               /\ asked' = [asked EXCEPT ![n] = end]
               /\ lapsed' = lapsed \ {n}
          ELSE UNCHANGED <<elems, asked, lapsed>>
    /\ UNCHANGED <<kind, torn, mask, world, prefix, running, todo, rebuilt, listed, lifted>>

Unban ==
    /\ At("up")
    /\ \E n \in BanNets :
        /\ Delete(n)
        /\ asked' = [asked EXCEPT ![n] = 0]
        /\ lapsed' = lapsed \ {n}
        /\ lifted' = IF faults' # faults \/ Place(n) \in torn \/ Strays(n)
                     THEN lifted \ {n} ELSE lifted \cup {n}
    /\ UNCHANGED <<next, pc>>

-----------------------------------------------------------------------------
(* What goes wrong, and time.                                              *)

\* A call of nft fails.  The first setup and the test of a set take any failure for
\* a set of another kind; every other one ends the start, or the operation.
CallFails ==
    /\ Fault
    /\ pc \notin {"down", "up"}
    /\ pc' = CASE pc = "setup" -> "check"
               [] pc = "check" -> "read"
               [] OTHER -> IF running THEN "up" ELSE "down"
    /\ todo' = IF pc = "check" THEN todo ELSE "ban6"
    /\ rebuilt' = (rebuilt /\ pc' \in {"check", "read"} /\ pc # "setup")
    /\ listed' = None /\ next' = <<>>
    /\ UNCHANGED <<kernel, now, prefix, running, said>>

Stop ==
    /\ Fault
    /\ ~At("down")
    /\ pc' = "down" /\ running' = FALSE
    /\ todo' = "ban6" /\ rebuilt' = FALSE /\ listed' = None /\ next' = <<>>
    /\ UNCHANGED <<kernel, now, prefix, said>>

\* Seen on older kernels: a one-address element of an interval set with timeouts.
Corrupt ==
    /\ Fault
    /\ \E s \in Sets, a \in Addrs :
        /\ ~IsHash(s)
        /\ elems[s][Host(a)] > now
        /\ torn' = torn \cup {<<s, Host(a)>>}
    /\ UNCHANGED <<kind, elems, mask, now, daemon, pc, said>>

\* The kernel drops what has ended.
Clock ==
    /\ \/ now < MaxTime
       \/ \E s \in Sets, n \in Nets : elems[s][n] > now
    /\ now' = now + 1
    /\ elems' = [s \in Sets |-> [n \in Nets |-> IF elems[s][n] <= now' THEN 0 ELSE elems[s][n]]]
    /\ torn' = {t \in torn : elems'[t[1]][t[2]] > 0}
    /\ asked' = [n \in Nets |-> IF asked[n] <= now' THEN 0 ELSE asked[n]]
    /\ lapsed' = {n \in lapsed : asked'[n] > 0}
    /\ UNCHANGED <<kind, mask, faults, daemon, pc, lifted>>

-----------------------------------------------------------------------------
StartStep == Setup \/ Check \/ ReadStale \/ Recreate \/ Again \/ Rekey \/ Move \/ List \/ Repair

Next ==
    \/ Start \/ StartStep
    \/ Ask \/ Ban \/ Add \/ Unban
    \/ CallFails \/ Stop \/ Corrupt \/ Clock

\* systemd starts the daemon again after a failure, calls of nft end, and time goes on.
Spec == Init /\ [][Next]_vars /\ WF_vars(Start) /\ WF_vars(StartStep) /\ WF_vars(Clock)

-----------------------------------------------------------------------------
TypeOK ==
    /\ kind \in {"none", "hash", "interval"}
    /\ elems \in [Sets -> [Nets -> Nat]]
    /\ torn \subseteq Sets \X Nets
    /\ mask \in 0 .. Width
    /\ now \in Nat /\ faults \in 0 .. MaxFaults
    /\ prefix \in Prefixes /\ running \in BOOLEAN
    /\ pc \in {"down", "setup", "check", "read", "recreate", "again", "rekey", "move",
               "list", "repair", "up", "add"}
    /\ todo \in Sets /\ rebuilt \in BOOLEAN
    /\ listed \in [Nets -> 0 .. MaxTtl]
    /\ next \in (BanNets \X (1 .. MaxTtl)) \cup {<<>>}
    /\ asked \in [Nets -> Nat]
    /\ lapsed \subseteq BanNets /\ lifted \subseteq BanNets

\* While the daemon runs, every network it was made to ban is shut out to its last
\* address and for the whole time: whatever restarts, upgrades from the older layout,
\* changes of the prefix, repairs and failing calls came in between (nft.rs:7-25, 237-327).
\* A change of the prefix may change which networks these are, and until when, as Start
\* says.  Left out is a network whose renewal has deleted the ban in force and then
\* failed to add the new one (nft.rs:493-501), until it is banned again.
InForce ==
    running => \A n \in Nets \ lapsed : asked[n] > now =>
                   \A a \in Addrs : Covers(n, Host(a)) => Dropped(a)

\* A network that was unbanned, and not banned since, is in no set: also not after a
\* later start or repair puts back what it has read (nft.rs:505-511).  Left out are
\* those for which unban reports success and has deleted nothing: the call of nft
\* failed (nft.rs:333-340), the element was damaged, or the ban was where an earlier
\* prefix put it; and those that a change of the prefix makes an element stand for.
UnbanLifts ==
    running => \A n \in lifted : \A s \in Sets : Listing(s)[n] = 0

\* Once nothing fails any more the daemon is up and stays up: whatever a start that
\* broke off left in the kernel keeps a later one from succeeding no longer than the
\* bans last (nft.rs:471-480, systemd's Restart=on-failure).
ComesUp == <>[]running
=============================================================================
