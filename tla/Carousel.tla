------------------------------ MODULE Carousel ------------------------------
(***************************************************************************)
(* The data carousel of one component of a service: the hub that receives  *)
(* its DII and DDB sections (bml/observers.go, bml/hub.go), the assembly   *)
(* of its modules within two byte budgets (ts/dsmcc_carousel.go) and the   *)
(* store completed modules are put into.  Every operation runs under the   *)
(* hub's lock and is one action; the store evicts on its own.  A block is  *)
(* one byte, and a download id and a version are one number, `version'.    *)
(***************************************************************************)
EXTENDS Integers, Sequences, FiniteSets

CONSTANTS
    DIIs,              \* the module lists broadcast: sequences of [id, size, version]
    MaxModuleSize,
    MaxInFlightBytes,
    MaxCompletedBytes,
    MaxAirChanges,     \* bound: changes of the DII, and of the PMT
    MaxStoreEvictions  \* bound: modules the store evicts

VARIABLES
    air,        \* the DII on the air
    airChanges, \* changes of the DII or of the PMT so far
    mapped,     \* the PMT lists the component
    diiSection, \* service.diiSections[componentTag], <<>> before the first
    carousel,   \* the assembly: modules (oldest generation first), bytes, rejected
    storeKind,  \* no store, one in memory or a persistent one
    store,      \* the completed modules it holds
    evictions   \* modules it evicted so far

carouselVars == <<air, airChanges, mapped, diiSection, carousel, storeKind, store, evictions>>

Entries == UNION {{d[i] : i \in DOMAIN d} : d \in DIIs}
ModuleIds == {e.id : e \in Entries}
Blocks(size) == 0 .. size - 1
Whole(e) == {<<b, e.version>> : b \in Blocks(e.size)}
NewCarousel == [modules |-> <<>>, inFlightBytes |-> 0, completedBytes |-> 0, rejected |-> {}]

Known(c, id) == \E i \in DOMAIN c.modules : c.modules[i].id = id
StateOf(c, id) == c.modules[CHOOSE i \in DOMAIN c.modules : c.modules[i].id = id]
Replaced(c, m) == [i \in DOMAIN c.modules |-> IF c.modules[i].id = m.id THEN m ELSE c.modules[i]]
Others(c, id) == SelectSeq(c.modules, LAMBDA m : m.id # id)
\* len(state.data)
Length(m) == IF m.held THEN m.size ELSE 0

RemoveModule(c, id) ==
    IF ~Known(c, id) THEN c
    ELSE LET m == StateOf(c, id) IN
         [c EXCEPT !.modules = Others(c, id),
                   !.completedBytes = @ - (IF m.completed THEN Length(m) ELSE 0),
                   !.inFlightBytes = @ - (IF m.completed THEN 0 ELSE m.size)]

\* The two eviction loops: candidates, oldest first, are removed while the bytes
\* counted in a field of c exceed the limit.
EvictWhile(c, bytes, limit, candidates) ==
    LET evicted[n \in 0 .. Len(candidates)] ==
            IF n = 0 THEN c
            ELSE LET d == evicted[n - 1]
                 IN IF d[bytes] > limit THEN RemoveModule(d, candidates[n].id) ELSE d
    IN evicted[Len(candidates)]

EvictInFlight(c, size) ==
    EvictWhile(c, "inFlightBytes", MaxInFlightBytes - size,
               SelectSeq(c.modules, LAMBDA m : ~m.completed))
EvictCompletedExcept(c, id) ==
    EvictWhile(c, "completedBytes", MaxCompletedBytes,
               SelectSeq(c.modules, LAMBDA m : m.completed /\ m.held /\ m.id # id))

Rejected(c, e) == [RemoveModule(c, e.id) EXCEPT !.rejected = @ \cup {e.id}]
\* A buffer of the module's size; `again' (history) tells that Invalidate made it.
Assembly(e) == [id |-> e.id, size |-> e.size, version |-> e.version, data |-> {}, held |-> TRUE,
                received |-> {}, count |-> 0, completed |-> FALSE, again |-> FALSE]
Allocated(c, e) == [c EXCEPT !.modules = Append(@, Assembly(e)), !.inFlightBytes = @ + e.size]

\* One module of a DII.
Announce(c, e) ==
    IF e.size = 0 \/ e.size > MaxModuleSize THEN Rejected(c, e)
    ELSE IF Known(c, e.id) /\ StateOf(c, e.id).version = e.version /\ StateOf(c, e.id).size = e.size
         THEN [c EXCEPT !.rejected = @ \ {e.id}]
    ELSE LET r == [RemoveModule(c, e.id) EXCEPT !.rejected = @ \ {e.id}] IN
         IF e.size > MaxInFlightBytes THEN Rejected(r, e)
         ELSE Allocated(EvictInFlight(r, e.size), e)

\* The whole DII, and what it no longer lists.
ObserveDII(c, dii) ==
    LET announced[n \in 0 .. Len(dii)] ==
            IF n = 0 THEN c ELSE Announce(announced[n - 1], dii[n])
        seen == {dii[i].id : i \in DOMAIN dii}
        dropped[S \in SUBSET ModuleIds] ==
            IF S = {} THEN announced[Len(dii)]
            ELSE LET id == CHOOSE x \in S : TRUE IN RemoveModule(dropped[S \ {id}], id)
    IN [dropped[ModuleIds \ seen] EXCEPT !.rejected = @ \cap seen]

\* A module that is complete enters the other budget, or nothing keeps it.
Completed(c, m) ==
    LET moved == [c EXCEPT !.modules = Replaced(c, [m EXCEPT !.completed = TRUE, !.received = {}]),
                           !.inFlightBytes = @ - m.size, !.completedBytes = @ + m.size]
        fitted == EvictCompletedExcept(moved, m.id)
    IN IF fitted.completedBytes > MaxCompletedBytes THEN RemoveModule(fitted, m.id) ELSE fitted

ReleaseCompletedPayload(c, id) ==
    IF Known(c, id) /\ StateOf(c, id).completed /\ StateOf(c, id).held
    THEN [c EXCEPT !.completedBytes = @ - StateOf(c, id).size,
                   !.modules = Replaced(c, [StateOf(c, id) EXCEPT !.held = FALSE, !.data = {}])]
    ELSE c

\* The modules the store has are completed from it, in the order of the DII.
Restored(c, dii) ==
    LET restored[n \in 0 .. Len(dii)] ==
            IF n = 0 THEN c
            ELSE LET d == restored[n - 1]
                     e == dii[n]
                     copies == {k \in store : k.id = e.id /\ k.version = e.version /\ k.size = e.size}
                 IN IF copies = {} \/ ~Known(d, e.id) \/ StateOf(d, e.id).completed THEN d
                    ELSE LET full == Completed(d, [StateOf(d, e.id) EXCEPT
                                         !.data = (CHOOSE k \in copies : TRUE).data, !.count = e.size])
                         IN IF storeKind = "persistent" THEN ReleaseCompletedPayload(full, e.id) ELSE full
    IN restored[Len(dii)]

-----------------------------------------------------------------------------
CarouselInit ==
    /\ air \in DIIs /\ airChanges = 0
    /\ mapped = FALSE /\ diiSection = <<>> /\ carousel = NewCarousel
    /\ storeKind \in {"none", "memory", "persistent"} /\ store = {} /\ evictions = 0

\* The broadcaster changes the carousel's module list.
ChangeDII(dii) ==
    /\ airChanges < MaxAirChanges /\ dii # air
    /\ air' = dii /\ airChanges' = airChanges + 1
    /\ UNCHANGED <<mapped, diiSection, carousel, storeKind, store, evictions>>

\* A PMT that differs from the last: it adds the component, with a carousel of
\* its own, or removes it and its carousel.  The last DII section stays.
observePMT ==
    /\ airChanges < MaxAirChanges
    /\ airChanges' = airChanges + 1 /\ mapped' = ~mapped /\ carousel' = NewCarousel
    /\ UNCHANGED <<air, diiSection, storeKind, store, evictions>>

\* The DII on the air, unless it is the section observed last.
observeDII ==
    /\ mapped /\ diiSection # air
    /\ diiSection' = air
    /\ carousel' = Restored(ObserveDII(carousel, air), air)
    /\ UNCHANGED <<air, airChanges, mapped, storeKind, store, evictions>>

\* Mutant: a block of any version is copied.
AssemblesAny(m, version) == ~m.completed

\* The block belongs to the generation that is being assembled.
Assembles(m, version) == ~m.completed /\ m.version = version

\* A completed module is put into the store; once a persistent one has it, the
\* carousel's copy goes.  `put' is the store's answer.
Kept(c, id, put) ==
    /\ store' = IF put THEN store \cup {[id |-> id, version |-> StateOf(c, id).version,
                                        size |-> StateOf(c, id).size, data |-> StateOf(c, id).data]}
                ELSE store
    /\ carousel' = IF put /\ storeKind = "persistent" THEN ReleaseCompletedPayload(c, id) ELSE c

\* Block b of module id arrives, of the version on the air or a late one.
observeDDB(id, version, b) ==
    /\ mapped /\ Known(carousel, id)
    /\ Assembles(StateOf(carousel, id), version) /\ b < StateOf(carousel, id).size
    /\ \E old \in {StateOf(carousel, id)} :
       \E m \in {[old EXCEPT !.data = {x \in @ : x[1] # b} \cup {<<b, version>>},
                             !.received = @ \cup {b},
                             !.count = @ + (IF b \in old.received THEN 0 ELSE 1)]} :
         IF m.count < m.size
         THEN carousel' = [carousel EXCEPT !.modules = Replaced(carousel, m)] /\ UNCHANGED store
         ELSE \E c \in {Completed(carousel, m)} :
                IF Known(c, id)
                THEN \E put \in IF storeKind = "none" THEN {FALSE} ELSE BOOLEAN : Kept(c, id, put)
                ELSE carousel' = c /\ UNCHANGED store
    /\ UNCHANGED <<air, airChanges, mapped, diiSection, storeKind, evictions>>

\* What ModuleVersion answers from: the assembly, else the store.
Served(id, version) ==
    {m.data : m \in {x \in {carousel.modules[i] : i \in DOMAIN carousel.modules} :
                        x.id = id /\ x.version = version /\ x.completed /\ x.held}}
    \cup {k.data : k \in {x \in store : x.id = id /\ x.version = version}}

\* The module is assembled anew, as the youngest.
Invalidated(m) == [Assembly(m) EXCEPT !.again = TRUE]

\* Mutant: a module without payload stays as it is.
InvalidatesHeld(m, version) == m.completed /\ m.held /\ m.version = version

\* Invalidate acts on a completed module of this version.
Invalidates(m, version) == m.completed /\ m.version = version

\* ModuleVersion for a module nothing can serve: its assembly starts again.
ModuleVersion(id, version) ==
    /\ mapped /\ storeKind # "none" /\ Served(id, version) = {}
    /\ Known(carousel, id) /\ Invalidates(StateOf(carousel, id), version)
    /\ \E m \in {StateOf(carousel, id)} :
         carousel' = [carousel EXCEPT !.modules = Append(Others(carousel, id), Invalidated(m)),
                                      !.completedBytes = @ - Length(m),
                                      !.inFlightBytes = @ + m.size]
    /\ UNCHANGED <<air, airChanges, mapped, diiSection, storeKind, store, evictions>>

\* The store prunes a module, for its size or its age.
StoreEvicts(k) ==
    /\ evictions < MaxStoreEvictions
    /\ store' = store \ {k} /\ evictions' = evictions + 1
    /\ UNCHANGED <<air, airChanges, mapped, diiSection, carousel, storeKind>>

CarouselNext ==
    \/ \E dii \in DIIs : ChangeDII(dii)
    \/ observePMT
    \/ observeDII
    \/ \E e \in Entries, b \in Blocks(MaxModuleSize) : observeDDB(e.id, e.version, b)
    \/ \E e \in Entries : ModuleVersion(e.id, e.version)
    \/ \E k \in store : StoreEvicts(k)

\* The broadcaster repeats the blocks of the modules on the air, and clients go on
\* asking for the modules they are told of.
BlockOnAir == \E i \in DOMAIN air : \E b \in Blocks(air[i].size) :
                observeDDB(air[i].id, air[i].version, b)
Refetch == \E e \in Entries : ModuleVersion(e.id, e.version)
CarouselFairness == WF_carouselVars(BlockOnAir) /\ WF_carouselVars(Refetch)

CarouselSpec == CarouselInit /\ [][CarouselNext]_carouselVars /\ CarouselFairness

-----------------------------------------------------------------------------
States == {carousel.modules[i] : i \in DOMAIN carousel.modules}
Total(S, Size(_)) ==
    LET total[T \in SUBSET S] ==
            IF T = {} THEN 0 ELSE LET m == CHOOSE x \in T : TRUE IN Size(m) + total[T \ {m}]
    IN total[S]
Listed(e) == \E m \in States : m.id = e.id /\ m.version = e.version
OnAir(e) == \E i \in DOMAIN air : air[i] = e
InFlight == {m \in States : ~m.completed}

\* The byte counters of ts/dsmcc_carousel.go are what the modules hold: the
\* unsigned counters never wrap, whatever is replaced, released, invalidated,
\* restored or evicted, and completed payloads stay within their budget.
BytesAreSums ==
    /\ carousel.completedBytes = Total({m \in States : m.completed}, Length)
    /\ carousel.completedBytes <= MaxCompletedBytes
    /\ carousel.inFlightBytes = Total(InFlight, LAMBDA m : m.size)

\* Buffers under assembly stay within their budget but for the modules that
\* Invalidate put back, which asks for no room (ts/dsmcc_carousel.go:295).
AssemblyBudget ==
    Total({m \in InFlight : ~m.again}, LAMBDA m : m.size) <= MaxInFlightBytes

\* What the hub lists is what the last DII it applied announces, in the size
\* and version announced: as accepted, or as rejected when it can never fit,
\* and never as both (bml/snapshot.go reads the two).  A carousel with modules is
\* one that a DII was applied to; a new one starts empty.
ListedIsAnnounced ==
    LET listed == {diiSection[i] : i \in DOMAIN diiSection} IN
    /\ \A m \in States : [id |-> m.id, size |-> m.size, version |-> m.version] \in listed
    /\ carousel.rejected \cap {m.id : m \in States} = {}
    /\ \A e \in listed :
         States # {} /\ (e.size = 0 \/ e.size > MaxInFlightBytes) => e.id \in carousel.rejected

\* Whatever a fetch of an immutable module address returns, and whatever the
\* store keeps, is every block of that version and of no other: no answer
\* mixes the blocks of a replaced module or has a block missing.
ServedIsWhole ==
    /\ \A e \in Entries : \A d \in Served(e.id, e.version) : \E f \in Entries :
         f.id = e.id /\ f.version = e.version /\ d = Whole(f)
    /\ \A k \in store : k.data = Whole(k)

\* What the carousel counts, lists and serves is what it was sent.
CarouselSound == BytesAreSums /\ AssemblyBudget /\ ListedIsAnnounced /\ ServedIsWhole

\* Once the broadcast and the store stop changing, every module that the hub
\* lists and the broadcaster repeats can be fetched, for good: releasing its
\* payload to a store that then evicts it does not leave it complete and out of
\* reach (bml/hub.go:169).
ListedIsFetchable ==
    <>[](\A e \in Entries : Listed(e) /\ OnAir(e) => Served(e.id, e.version) # {})
=============================================================================
