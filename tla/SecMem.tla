------------------------------- MODULE SecMem -------------------------------
(***************************************************************************)
(* Memory for secrets (secmem.rs): slabs mapped and locked once, buffers   *)
(* carved out of them first fit, ranges wiped and merged as they come      *)
(* back, and the session key that seals what rests.                        *)
(*                                                                         *)
(* Sizes are in granules of ALIGN bytes.  A granule holds zeros or bytes   *)
(* of the buffer that wrote it last.  The arena's mutex makes an           *)
(* allocation and a release one step each; a buffer that grows does both,  *)
(* and other threads may come in between.                                  *)
(***************************************************************************)
EXTENDS Integers, Sequences, FiniteSets, FiniteSetsExt

CONSTANTS
    Buf,         \* SecretBufs of the program
    KeyBuf,      \* the one that holds the session key, if an arena has to
    SlabBytes,   \* SLAB_BYTES, a multiple of Page
    Page,        \* the page size
    MaxLen,      \* bound on the length of a buffer
    MaxSlabs,    \* bound on the slabs
    MaxFailed    \* bound on the locks the kernel refuses

VARIABLES
    slabs,       \* the arena, by index: 0 stands for the heap
    buf,         \* each buffer: its place, its length, and a place it left
    counters,    \* LOCKED_BYTES, UNLOCKED_BYTES, FAILED_LOCKS
    backing      \* KeyBacking, or "none" before the key is made

vars == <<slabs, buf, counters, backing>>

Owner == Buf \cup {KeyBuf}
Zero == "zero"
NoPlace == [slab |-> -1, off |-> 0, cap |-> 0]
Empty == [place |-> NoPlace, len |-> 0, old |-> NoPlace]
Span(off, len) == off .. off + len - 1

\* What is left where an oversize slab was.
Tomb == [size |-> 0, locked |-> FALSE, dedicated |-> TRUE, free |-> {}, live |-> 0, mem |-> <<>>]

Init ==
    /\ slabs = <<>> /\ buf = [b \in Owner |-> Empty]
    /\ counters = [locked |-> 0, unlocked |-> 0, failed |-> 0]
    /\ backing = "none"

----------------------------------------------------------------------------
(* A slab.                                                                 *)

\* Slab::map, with the kernel's answer to mlock.
SlabMap(want, dedicated, locked) ==
    LET size == ((want + Page - 1) \div Page) * Page IN
    [size |-> size, locked |-> locked, dedicated |-> dedicated, free |-> {<<0, size>>},
     live |-> 0, mem |-> [i \in Span(0, size) |-> Zero]]

Fits(s, len) == {f \in s.free : f[2] >= len}
FirstFit(s, len) == CHOOSE f \in Fits(s, len) : \A g \in Fits(s, len) : f[1] <= g[1]

\* Slab::alloc.
SlabAlloc(s, len) ==
    LET f == FirstFit(s, len) IN
    [s EXCEPT !.live = @ + 1,
              !.free = (@ \ {f}) \cup {r \in {<<f[1] + len, f[2] - len>>} : f[2] # len}]

\* Mutant: the range behind is swallowed whether it touches or not.
SlabReleaseGreedy(s, off, len) ==
    LET after == {g \in s.free : g[1] >= off + len}
        last == IF after = {} THEN off + len ELSE Max({g[1] + g[2] : g \in after})
    IN [s EXCEPT !.live = @ - 1, !.free = (@ \ after) \cup {<<off, last - off>>},
                 !.mem = [i \in DOMAIN @ |-> IF i \in Span(off, len) THEN Zero ELSE @[i]]]

\* Slab::release: wipe the range, and merge it with the free range that begins
\* where it ends and with the one that ends where it begins.
SlabRelease(s, off, len) ==
    LET after == {g \in s.free : g[1] = off + len}
        before == {g \in s.free : g[1] + g[2] = off}
        first == Min({off} \cup {g[1] : g \in before})
        last == Max({off + len} \cup {g[1] + g[2] : g \in after})
    IN [s EXCEPT !.live = IF @ = 0 THEN 0 ELSE @ - 1,
                 !.free = (@ \ (after \cup before)) \cup {<<first, last - first>>},
                 !.mem = [i \in DOMAIN @ |-> IF i \in Span(off, len) THEN Zero ELSE @[i]]]

----------------------------------------------------------------------------
(* The arena.  kernel says what mmap and mlock answer if they are asked:   *)
(* "locked", "refused" (mapped, not locked) or "none" (not mapped).        *)

Kernel == IF counters.failed < MaxFailed THEN {"locked", "refused", "none"} ELSE {"locked"}

Count(kernel, size) ==
    [locked |-> counters.locked + (IF kernel = "locked" THEN size ELSE 0),
     unlocked |-> counters.unlocked + (IF kernel = "refused" THEN size ELSE 0),
     failed |-> counters.failed + (IF kernel = "locked" THEN 0 ELSE 1)]

Holding(cap) == {i \in 1 .. Len(slabs) : ~slabs[i].dedicated /\ Fits(slabs[i], cap) # {}}
Vacant == {i \in 1 .. Len(slabs) : slabs[i].size = 0}

\* arena_alloc and the fallback of with_capacity: where a buffer of cap goes,
\* and the arena after it.
ArenaAlloc(cap, kernel) ==
    LET wanted == IF cap <= SlabBytes THEN SlabBytes ELSE cap
        fresh == SlabAlloc(SlabMap(wanted, cap > SlabBytes, kernel = "locked"), cap)
        reuse == cap > SlabBytes /\ Vacant # {}
        at == IF reuse THEN Min(Vacant) ELSE Len(slabs) + 1
    IN IF cap <= SlabBytes /\ Holding(cap) # {}
       THEN LET i == Min(Holding(cap)) IN
            [slabs |-> [slabs EXCEPT ![i] = SlabAlloc(@, cap)], counters |-> counters,
             place |-> [slab |-> i, off |-> FirstFit(slabs[i], cap)[1], cap |-> cap]]
       ELSE IF kernel = "none"
       THEN [slabs |-> slabs, counters |-> Count(kernel, 0),
             place |-> [slab |-> 0, off |-> 0, cap |-> cap]]
       ELSE [slabs |-> IF reuse THEN [slabs EXCEPT ![at] = fresh] ELSE Append(slabs, fresh),
             counters |-> Count(kernel, fresh.size),
             place |-> [slab |-> at, off |-> 0, cap |-> cap]]

\* arena_free: the last range of a slab of its own takes the slab along.
ArenaFree(place) ==
    IF place.slab < 1 THEN [slabs |-> slabs, counters |-> counters]
    ELSE LET s == SlabRelease(slabs[place.slab], place.off, place.cap) IN
         IF s.dedicated /\ s.live = 0
         THEN [slabs |-> [slabs EXCEPT ![place.slab] = Tomb],
               counters |-> IF s.locked THEN [counters EXCEPT !.locked = @ - s.size]
                                        ELSE [counters EXCEPT !.unlocked = @ - s.size]]
         ELSE [slabs |-> [slabs EXCEPT ![place.slab] = s], counters |-> counters]

\* Granules lo .. hi of a place come to hold what.
Fill(ss, place, lo, hi, what) ==
    IF place.slab < 1 THEN ss
    ELSE [ss EXCEPT ![place.slab].mem =
            [i \in DOMAIN @ |-> IF i - place.off \in lo .. hi - 1 THEN what ELSE @[i]]]

----------------------------------------------------------------------------
(* A buffer.                                                               *)

Idle(b) == buf[b].old = NoPlace

\* with_capacity and what is written at once: new, zeroed, a clone.
New(b, cap, len, kernel) ==
    LET a == ArenaAlloc(cap, kernel) IN
    /\ buf[b] = Empty
    /\ Len(a.slabs) <= MaxSlabs
    /\ slabs' = Fill(a.slabs, a.place, 0, len, b) /\ counters' = a.counters
    /\ buf' = [buf EXCEPT ![b].place = a.place, ![b].len = len]

NewBuf(b, cap, len, kernel) == New(b, cap, len, kernel) /\ UNCHANGED backing

\* extend_from_slice where there is room.
Extend(b, n) ==
    /\ Idle(b) /\ n >= 1 /\ buf[b].len + n <= buf[b].place.cap
    /\ slabs' = Fill(slabs, buf[b].place, buf[b].len, buf[b].len + n, b)
    /\ buf' = [buf EXCEPT ![b].len = @ + n]
    /\ UNCHANGED <<counters, backing>>

\* reserve: a range twice the size or larger, the bytes copied, and the old range
\* still to be dropped.
Grow(b, n, kernel) ==
    LET needed == buf[b].len + n
        cap == Max({needed, 2 * buf[b].place.cap})
        a == ArenaAlloc(cap, kernel)
    IN /\ Idle(b) /\ needed > buf[b].place.cap /\ needed <= MaxLen /\ Len(a.slabs) <= MaxSlabs
       /\ slabs' = Fill(a.slabs, a.place, 0, needed, b) /\ counters' = a.counters
       /\ buf' = [buf EXCEPT ![b] = [place |-> a.place, len |-> needed, old |-> @.place]]
       /\ UNCHANGED backing

\* ... which is then dropped.
Leave(b) ==
    LET a == ArenaFree(buf[b].old) IN
    /\ ~Idle(b)
    /\ slabs' = a.slabs /\ counters' = a.counters
    /\ buf' = [buf EXCEPT ![b].old = NoPlace]
    /\ UNCHANGED backing

Truncate(b, len) ==
    /\ Idle(b) /\ len < buf[b].len
    /\ slabs' = Fill(slabs, buf[b].place, len, buf[b].len, Zero)
    /\ buf' = [buf EXCEPT ![b].len = len]
    /\ UNCHANGED <<counters, backing>>

Drop(b) ==
    LET a == ArenaFree(buf[b].place) IN
    /\ Idle(b) /\ buf[b] # Empty
    /\ slabs' = a.slabs /\ counters' = a.counters
    /\ buf' = [buf EXCEPT ![b] = Empty]
    /\ UNCHANGED backing

\* SessionKey::create, once: a page of memfd_secret, or a buffer of the arena
\* that is never dropped and says whether its slab is locked.
CreateKey(secretmem, kernel) ==
    /\ backing = "none"
    /\ \/ secretmem /\ backing' = "memfd_secret" /\ UNCHANGED <<slabs, buf, counters>>
       \/ /\ ~secretmem /\ New(KeyBuf, 1, 1, kernel)
          /\ LET at == buf'[KeyBuf].place.slab IN
             backing' = IF at > 0 /\ slabs'[at].locked THEN "locked-slab" ELSE "unlocked"

Next ==
    \/ \E b \in Buf :
        \/ \E cap \in 1 .. MaxLen, k \in Kernel : \E len \in {0, cap} :
             NewBuf(b, cap, len, k)
        \/ \E n \in 1 .. MaxLen : Extend(b, n) \/ \E k \in Kernel : Grow(b, n, k)
        \/ Leave(b) \/ Drop(b)
        \/ \E len \in 0 .. MaxLen : Truncate(b, len)
    \/ \E secretmem \in BOOLEAN, k \in Kernel : CreateKey(secretmem, k)

----------------------------------------------------------------------------
Places(b) == {buf[b].place, buf[b].old} \ {NoPlace}
InSlab(i, place) == place.slab = i

\* Every granule of a slab is free or belongs to one buffer, never to two.
RangesTile ==
    \A i \in 1 .. Len(slabs) : \A g \in Span(0, slabs[i].size) :
        Cardinality({f \in slabs[i].free : g \in Span(f[1], f[2])}
                    \cup {h \in UNION {{b} \X Places(b) : b \in Owner} :
                            InSlab(i, h[2]) /\ g \in Span(h[2].off, h[2].cap)}) = 1

\* A buffer holds what was written to it, and what no buffer holds is wiped.
BytesAreKept ==
    /\ \A b \in Owner : LET p == buf[b].place IN
         p.slab > 0 => \A g \in Span(p.off, buf[b].len) : slabs[p.slab].mem[g] = b
    /\ \A i \in 1 .. Len(slabs) : \A g \in Span(0, slabs[i].size) :
         slabs[i].mem[g] = Zero \/ \E b \in Owner :
           \/ InSlab(i, buf[b].place) /\ g \in Span(buf[b].place.off, buf[b].len)
           \/ InSlab(i, buf[b].old) /\ g \in Span(buf[b].old.off, buf[b].old.cap)

\* The bytes of slabs.
Bytes(S) == MapThenSumSet(LAMBDA i : slabs[i].size, S)

\* The posture report is true: the two counters are the sizes of the slabs that are
\* locked and of those the kernel refused to lock, through every slab that comes and
\* goes, and the session key is where it is said to be.
PostureIsTrue ==
    /\ counters.locked = Bytes({i \in 1 .. Len(slabs) : slabs[i].locked})
    /\ counters.unlocked = Bytes({i \in 1 .. Len(slabs) : ~slabs[i].locked})
    /\ backing = "locked-slab" => slabs[buf[KeyBuf].place.slab].locked

\* The three together, whatever is made, grown, cut, moved and dropped, and whichever
\* locks the kernel refuses.
ArenaIsSound == RangesTile /\ BytesAreKept /\ PostureIsTrue

============================================================================
