---------------------------- MODULE ArenaProofs ----------------------------
(***************************************************************************)
(* The memory for secrets, for any buffers and slabs and whatever the      *)
(* kernel refuses: the arena hands out no granule twice, keeps its bytes,  *)
(* wipes what comes back and tells the truth about its locks.              *)
(***************************************************************************)
EXTENDS LibraryProofs

----------------------------------------------------------------------------
\* The arena.

AnyBuf == Mem!Owner
Contents == UNION {[0 .. n - 1 -> AnyBuf \cup {Mem!Zero}] : n \in Nat}
SlabSet == [size : Nat, locked : BOOLEAN, dedicated : BOOLEAN, free : SUBSET (Nat \X Nat),
            live : Nat, mem : Contents]
PlaceSet == [slab : Int, off : Nat, cap : Nat]
BufSet == [place : PlaceSet, len : Nat, old : PlaceSet]
Bufs == [AnyBuf -> BufSet]
Ways == {"place", "old"}

\* Granule g is one of the n from a on, and two ranges share none.
Inside(g, a, n) == a <= g /\ g < a + n
Apart(a, m, b, n) == a + m <= b \/ b + n <= a

\* As far as a place may hold bytes of a buffer: a place left behind may in all of it.
Used(bf, b, w) == IF w = "place" THEN bf[b].len ELSE bf[b].old.cap

\* Slab s at index i: its free ranges and the places in it tile it, and what it holds
\* is what the buffers there wrote, and zeros.
FreeApart(s) ==
    /\ \A f \in s.free : f[2] > 0 /\ f[1] + f[2] <= s.size
    /\ \A f, h \in s.free : f = h \/ Apart(f[1], f[2], h[1], h[2])
PlacesApart(s, i, bf) ==
    /\ \A b \in AnyBuf, w \in Ways : bf[b][w].slab = i =>
         /\ bf[b][w].cap > 0 /\ bf[b][w].off + bf[b][w].cap <= s.size
         /\ \A f \in s.free : Apart(f[1], f[2], bf[b][w].off, bf[b][w].cap)
    /\ \A b, c \in AnyBuf, w, v \in Ways : bf[b][w].slab = i /\ bf[c][v].slab = i =>
         \/ b = c /\ w = v
         \/ ~s.dedicated /\ Apart(bf[b][w].off, bf[b][w].cap, bf[c][v].off, bf[c][v].cap)
Covered(s, i, bf) ==
    \A g \in Nat : g < s.size =>
        \/ \E f \in s.free : Inside(g, f[1], f[2])
        \/ \E b \in AnyBuf, w \in Ways : bf[b][w].slab = i /\ Inside(g, bf[b][w].off, bf[b][w].cap)
Written(s, i, bf) ==
    \A b \in AnyBuf : bf[b].place.slab = i =>
        \A g \in Nat : Inside(g, bf[b].place.off, bf[b].len) => s.mem[g] = b
Wiped(s, i, bf) ==
    \A g \in Nat : g < s.size =>
        \/ s.mem[g] = Mem!Zero
        \/ \E b \in AnyBuf, w \in Ways : bf[b][w].slab = i /\ Inside(g, bf[b][w].off, Used(bf, b, w))
Tiled(s, i, bf) ==
    /\ s \in SlabSet /\ DOMAIN s.mem = 0 .. s.size - 1
    /\ FreeApart(s) /\ PlacesApart(s, i, bf) /\ Covered(s, i, bf)
    /\ Written(s, i, bf) /\ Wiped(s, i, bf)

\* A slab of its own has one buffer.
LiveOne(s) == s.dedicated /\ s.size > 0 => s.live = 1

Sound(ss, bf) ==
    /\ ss \in Seq(SlabSet) /\ bf \in Bufs
    /\ \A b \in AnyBuf : bf[b].len <= bf[b].place.cap
    /\ \A b \in AnyBuf, w \in Ways : bf[b][w] = Mem!NoPlace \/ bf[b][w].slab \in 0 .. Len(ss)
    /\ \A i \in 1 .. Len(ss) : Tiled(ss[i], i, bf) /\ LiveOne(ss[i])

\* A buffer's places.
LEMMA PlaceTypes ==
    ASSUME NEW bf \in Bufs, NEW b \in AnyBuf, NEW w \in Ways
    PROVE  /\ bf[b] \in BufSet /\ bf[b][w] \in PlaceSet /\ bf[b].len \in Nat
           /\ bf[b][w].slab \in Int /\ bf[b][w].off \in Nat /\ bf[b][w].cap \in Nat
           /\ Used(bf, b, w) \in Nat
           /\ bf[b]["place"] = bf[b].place /\ bf[b]["old"] = bf[b].old
  <1>1. bf[b] \in BufSet
    BY DEF Bufs
  <1>2. bf[b].len \in Nat /\ bf[b].place \in PlaceSet /\ bf[b].old \in PlaceSet
    BY <1>1 DEF BufSet
  <1>3. bf[b][w] \in PlaceSet
    BY <1>2 DEF Ways
  <1>4. bf[b][w].slab \in Int /\ bf[b][w].off \in Nat /\ bf[b][w].cap \in Nat
    BY <1>3 DEF PlaceSet
  <1>5. bf[b].old.cap \in Nat
    BY <1>2 DEF PlaceSet
  <1> QED
    BY <1>1, <1>2, <1>3, <1>4, <1>5 DEF Used

\* A slab nothing happened to stays as it is.
LEMMA TiledFrame ==
    ASSUME NEW s, NEW i, NEW bf \in Bufs, NEW bg \in Bufs, Tiled(s, i, bf),
           \A b \in AnyBuf, w \in Ways : bf[b][w].slab = i \/ bg[b][w].slab = i =>
              bf[b][w] = bg[b][w] /\ Used(bf, b, w) = Used(bg, b, w)
    PROVE  Tiled(s, i, bg)
  <1>1. "place" \in Ways
    BY DEF Ways
  <1>2. \A b \in AnyBuf, w \in Ways : bg[b][w].slab = i =>
           bf[b][w].slab = i /\ bf[b][w] = bg[b][w] /\ Used(bf, b, w) = Used(bg, b, w)
    OBVIOUS
  <1>3. \A b \in AnyBuf, w \in Ways : bf[b][w].slab = i =>
           bg[b][w].slab = i /\ bf[b][w] = bg[b][w] /\ Used(bf, b, w) = Used(bg, b, w)
    OBVIOUS
  <1>4. PlacesApart(s, i, bg)
    BY <1>2 DEF Tiled, PlacesApart
  <1>5. Covered(s, i, bg)
    BY <1>3 DEF Tiled, Covered
  <1>6. Written(s, i, bg)
    <2>1. \A b \in AnyBuf : bg[b].place.slab = i =>
             bf[b].place.slab = i /\ bf[b].place = bg[b].place /\ bf[b].len = bg[b].len
      BY <1>1, <1>2, PlaceTypes DEF Used
    <2> QED
      BY <2>1 DEF Tiled, Written
  <1>7. Wiped(s, i, bg)
    BY <1>3 DEF Tiled, Wiped
  <1> QED
    BY <1>4, <1>5, <1>6, <1>7 DEF Tiled

----------------------------------------------------------------------------
\* What a slab's operations do.

\* The end of a range is apart from what the range is apart from.
LEMMA ApartTail ==
    ASSUME NEW a \in Nat, NEW m \in Nat, NEW b \in Nat, NEW n \in Nat, NEW l \in Nat,
           l <= m, Apart(a, m, b, n)
    PROVE  Apart(a + l, m - l, b, n)
  BY DEF Apart

\* The first range that fits is free and fits.
LEMMA FirstFits ==
    ASSUME NEW s \in SlabSet, NEW len \in Nat, Mem!Fits(s, len) # {}
    PROVE  LET f == Mem!FirstFit(s, len) IN f \in s.free /\ f[2] >= len /\ f[1] \in Nat /\ f[2] \in Nat
  <1> DEFINE T == {f[1] : f \in Mem!Fits(s, len)}
  <1>1. \A f \in Mem!Fits(s, len) : f \in s.free /\ f[2] >= len /\ f[1] \in Nat /\ f[2] \in Nat
    BY DEF Mem!Fits, SlabSet
  <1>2. T \in SUBSET Nat /\ T # {}
    BY <1>1
  <1>3. PICK x \in T : \A y \in T : x <= y
    <2> HIDE DEF T
    <2> QED
      BY <1>2, Least
  <1>4. PICK f \in Mem!Fits(s, len) : f[1] = x
    OBVIOUS
  <1>5. \A g \in Mem!Fits(s, len) : f[1] <= g[1]
    BY <1>3, <1>4
  <1>6. Mem!FirstFit(s, len) \in Mem!Fits(s, len)
    BY <1>4, <1>5 DEF Mem!FirstFit
  <1> QED
    BY <1>1, <1>6

\* What SlabAlloc takes from the free ranges.
LEMMA AllocParts ==
    ASSUME NEW s \in SlabSet, NEW len \in Nat, Mem!Fits(s, len) # {},
           NEW f, f = Mem!FirstFit(s, len)
    PROVE  LET t == Mem!SlabAlloc(s, len) IN
           /\ t \in SlabSet /\ t.size = s.size /\ t.locked = s.locked /\ t.dedicated = s.dedicated
           /\ t.mem = s.mem /\ t.live = s.live + 1
           /\ \A r : r \in t.free <=>
                \/ r \in s.free /\ r # f
                \/ f[2] # len /\ r = <<f[1] + len, f[2] - len>>
  <1> DEFINE rest == {r \in {<<f[1] + len, f[2] - len>>} : f[2] # len}
             free == (s.free \ {f}) \cup rest
  <1>1. f \in s.free /\ f[2] >= len /\ f[1] \in Nat /\ f[2] \in Nat
    BY FirstFits
  <1>2. f[1] + len \in Nat /\ f[2] - len \in Nat
    BY <1>1
  <1>3. s.free \in SUBSET (Nat \X Nat) /\ s.live \in Nat
    BY DEF SlabSet
  <1>4. rest \in SUBSET (Nat \X Nat)
    BY <1>2
  <1>5. free \in SUBSET (Nat \X Nat) /\ s.live + 1 \in Nat
    BY <1>3, <1>4
  <1>6. Mem!SlabAlloc(s, len) = [s EXCEPT !.live = s.live + 1, !.free = free]
    BY DEF Mem!SlabAlloc
  <1> HIDE DEF free
  <1>7. LET t == Mem!SlabAlloc(s, len) IN
           /\ t \in SlabSet /\ t.size = s.size /\ t.locked = s.locked /\ t.dedicated = s.dedicated
           /\ t.mem = s.mem /\ t.live = s.live + 1 /\ t.free = free
    BY <1>5, <1>6 DEF SlabSet
  <1>8. \A r : r \in free <=> \/ r \in s.free /\ r # f
                              \/ f[2] # len /\ r = <<f[1] + len, f[2] - len>>
    BY DEF free
  <1> QED
    BY <1>7, <1>8

\* Places, buffer by buffer: bg is bf, but for place w of buffer b.
OnlyPlace(bf, bg, b, w) ==
    /\ \A c \in AnyBuf, v \in Ways : c # b \/ v # w =>
         bg[c][v] = bf[c][v] /\ Used(bg, c, v) = Used(bf, c, v)
    /\ \A c \in AnyBuf : c # b => bg[c].len = bf[c].len

\* A buffer that gets a place in a slab takes it from a free range, and finds zeros.
LEMMA AllocTiled ==
    ASSUME NEW s, NEW i, NEW bf \in Bufs, NEW bg \in Bufs, NEW b \in AnyBuf, NEW len \in Nat \ {0},
           Tiled(s, i, bf), Mem!Fits(s, len) # {},
           s.dedicated => \A c \in AnyBuf, v \in Ways : bf[c][v].slab # i,
           bf[b].place.slab # i,
           OnlyPlace(bf, bg, b, "place"), bg[b].len = 0,
           bg[b].place = [slab |-> i, off |-> Mem!FirstFit(s, len)[1], cap |-> len]
    PROVE  Tiled(Mem!SlabAlloc(s, len), i, bg)
  <1> PICK f : f = Mem!FirstFit(s, len)
    OBVIOUS
  <1> PICK t : t = Mem!SlabAlloc(s, len)
    OBVIOUS
  <1>1. s \in SlabSet /\ DOMAIN s.mem = 0 .. s.size - 1 /\ len \in Nat /\ len > 0 /\ s.size \in Nat
    BY DEF Tiled, SlabSet
  <1>2. f \in s.free /\ f[2] >= len /\ f[1] \in Nat /\ f[2] \in Nat
    BY <1>1, FirstFits
  <1>3. /\ t \in SlabSet /\ t.size = s.size /\ t.dedicated = s.dedicated /\ t.mem = s.mem
        /\ \A r : r \in t.free <=> \/ r \in s.free /\ r # f
                                   \/ f[2] # len /\ r = <<f[1] + len, f[2] - len>>
    BY <1>1, AllocParts
  <1>4. \A r \in s.free : r[1] \in Nat /\ r[2] \in Nat
    BY <1>1 DEF SlabSet
  <1>5. \A r \in t.free : r[1] \in Nat /\ r[2] \in Nat
    BY <1>3 DEF SlabSet
  <1>6. /\ bg[b]["place"].slab = i /\ bg[b]["place"].off = f[1] /\ bg[b]["place"].cap = len
        /\ Used(bg, b, "place") = 0 /\ bf[b]["place"].slab # i
    BY PlaceTypes DEF Used, Ways
  <1>7. \A c \in AnyBuf, v \in Ways :
          \/ c = b /\ v = "place"
          \/ bg[c][v] = bf[c][v] /\ Used(bg, c, v) = Used(bf, c, v)
    BY DEF OnlyPlace
  <1>8. \A c \in AnyBuf, v \in Ways : bg[c][v].slab \in Int /\ bg[c][v].off \in Nat /\ bg[c][v].cap \in Nat
    BY PlaceTypes
  <1>9. \A c \in AnyBuf, v \in Ways : bf[c][v].slab = i => bg[c][v] = bf[c][v] /\ (c # b \/ v # "place")
    BY <1>6, <1>7
  <1>10. FreeApart(t)
    <2>1. \A r \in s.free : r[2] > 0 /\ r[1] + r[2] <= s.size
      BY DEF Tiled, FreeApart
    <2>2. \A r, h \in s.free : r = h \/ Apart(r[1], r[2], h[1], h[2])
      BY DEF Tiled, FreeApart
    <2>3. \A r \in t.free : r[2] > 0 /\ r[1] + r[2] <= t.size
      <3> SUFFICES ASSUME NEW r \in t.free PROVE r[2] > 0 /\ r[1] + r[2] <= s.size
        BY <1>3
      <3>1. CASE r \in s.free
        BY <2>1, <3>1
      <3>2. CASE f[2] # len /\ r = <<f[1] + len, f[2] - len>>
        BY <1>1, <1>2, <2>1, <3>2
      <3> QED
        BY <1>3, <3>1, <3>2
    <2>4. ASSUME NEW r \in s.free, r # f, f[2] # len
          PROVE  Apart(r[1], r[2], f[1] + len, f[2] - len)
      BY <1>1, <1>2, <1>4, <2>1, <2>2, <2>4 DEF Apart
    <2>5. ASSUME NEW r \in t.free, NEW h \in t.free, r # h PROVE Apart(r[1], r[2], h[1], h[2])
      <3>1. CASE r \in s.free /\ r # f /\ h \in s.free /\ h # f
        BY <2>2, <2>5, <3>1
      <3>2. CASE r \in s.free /\ r # f /\ f[2] # len /\ h = <<f[1] + len, f[2] - len>>
        BY <2>4, <3>2
      <3>3. CASE h \in s.free /\ h # f /\ f[2] # len /\ r = <<f[1] + len, f[2] - len>>
        <4>1. Apart(h[1], h[2], f[1] + len, f[2] - len)
          BY <2>4, <3>3
        <4> QED
          BY <3>3, <4>1 DEF Apart
      <3> QED
        BY <1>3, <2>5, <3>1, <3>2, <3>3
    <2> QED
      BY <2>3, <2>5 DEF FreeApart
  <1>11. ASSUME NEW c \in AnyBuf, NEW v \in Ways, bg[c][v].slab = i, c # b \/ v # "place"
         PROVE  /\ bf[c][v] = bg[c][v] /\ bg[c][v].cap > 0 /\ bg[c][v].off + bg[c][v].cap <= s.size
                /\ \A r \in s.free : Apart(r[1], r[2], bg[c][v].off, bg[c][v].cap)
    BY <1>7, <1>11 DEF Tiled, PlacesApart
  <1>12. PlacesApart(t, i, bg)
    <2>1. f[2] > 0 /\ f[1] + f[2] <= s.size
      BY <1>2 DEF Tiled, FreeApart
    <2>2. ASSUME NEW c \in AnyBuf, NEW v \in Ways, bg[c][v].slab = i
          PROVE  /\ bg[c][v].cap > 0 /\ bg[c][v].off + bg[c][v].cap <= t.size
                 /\ \A r \in t.free : Apart(r[1], r[2], bg[c][v].off, bg[c][v].cap)
      <3>1. CASE c = b /\ v = "place"
        <4>1. \A r \in s.free : r # f => Apart(r[1], r[2], f[1], f[2])
          BY <1>2 DEF Tiled, FreeApart
        <4>2. ASSUME NEW r \in t.free PROVE Apart(r[1], r[2], f[1], len)
          <5>1. CASE r \in s.free /\ r # f
            BY <1>1, <1>2, <1>4, <4>1, <5>1, SMTT(30) DEF Apart
          <5>2. CASE f[2] # len /\ r = <<f[1] + len, f[2] - len>>
            BY <1>1, <1>2, <5>2 DEF Apart
          <5> QED
            BY <1>3, <5>1, <5>2
        <4> QED
          BY <1>1, <1>2, <1>3, <1>6, <2>1, <3>1, <4>2
      <3>2. CASE c # b \/ v # "place"
        <4>1. \A r \in s.free : Apart(r[1], r[2], bg[c][v].off, bg[c][v].cap)
          BY <1>11, <2>2, <3>2
        <4>2. ASSUME f[2] # len PROVE Apart(f[1] + len, f[2] - len, bg[c][v].off, bg[c][v].cap)
          <5>1. Apart(f[1], f[2], bg[c][v].off, bg[c][v].cap)
            BY <1>2, <4>1
          <5>2. bg[c][v].off \in Nat /\ bg[c][v].cap \in Nat
            BY <1>8
          <5> QED
            BY <1>1, <1>2, <5>1, <5>2, ApartTail
        <4>3. \A r \in t.free : Apart(r[1], r[2], bg[c][v].off, bg[c][v].cap)
          BY <1>3, <4>1, <4>2
        <4> QED
          BY <1>3, <1>11, <2>2, <3>2, <4>3
      <3> QED
        BY <3>1, <3>2
    <2>3. ASSUME NEW c \in AnyBuf, NEW d \in AnyBuf, NEW v \in Ways, NEW u \in Ways,
                 bg[c][v].slab = i, bg[d][u].slab = i, ~(c = d /\ v = u)
          PROVE  ~t.dedicated /\ Apart(bg[c][v].off, bg[c][v].cap, bg[d][u].off, bg[d][u].cap)
      <3>1. CASE c = b /\ v = "place"
        <4>1. d # b \/ u # "place"
          BY <2>3, <3>1
        <4>2. bf[d][u].slab = i
          BY <1>11, <2>3, <4>1
        <4>3. ~t.dedicated
          BY <1>3, <4>2
        <4>4. Apart(f[1], f[2], bg[d][u].off, bg[d][u].cap)
          BY <1>2, <1>11, <2>3, <4>1
        <4>5. bg[d][u].off \in Nat /\ bg[d][u].cap \in Nat
          BY <1>8
        <4>6. Apart(f[1], len, bg[d][u].off, bg[d][u].cap)
          BY <1>1, <1>2, <4>4, <4>5 DEF Apart
        <4> QED
          BY <1>6, <3>1, <4>3, <4>6
      <3>2. CASE d = b /\ u = "place"
        <4>1. c # b \/ v # "place"
          BY <2>3, <3>2
        <4>2. bf[c][v].slab = i
          BY <1>11, <2>3, <4>1
        <4>3. ~t.dedicated
          BY <1>3, <4>2
        <4>4. Apart(f[1], f[2], bg[c][v].off, bg[c][v].cap)
          BY <1>2, <1>11, <2>3, <4>1
        <4>5. bg[c][v].off \in Nat /\ bg[c][v].cap \in Nat
          BY <1>8
        <4>6. Apart(bg[c][v].off, bg[c][v].cap, f[1], len)
          BY <1>1, <1>2, <4>4, <4>5 DEF Apart
        <4> QED
          BY <1>6, <3>2, <4>3, <4>6
      <3>3. CASE (c # b \/ v # "place") /\ (d # b \/ u # "place")
        <4>1. bf[c][v] = bg[c][v] /\ bf[d][u] = bg[d][u]
          BY <1>11, <2>3, <3>3
        <4>2. ~s.dedicated /\ Apart(bf[c][v].off, bf[c][v].cap, bf[d][u].off, bf[d][u].cap)
          BY <2>3, <4>1 DEF Tiled, PlacesApart
        <4> QED
          BY <1>3, <4>1, <4>2
      <3> QED
        BY <3>1, <3>2, <3>3
    <2> QED
      BY <2>2, <2>3 DEF PlacesApart
  <1>13. Covered(t, i, bg)
    <2> SUFFICES ASSUME NEW g \in Nat, g < s.size
                 PROVE  \/ \E r \in t.free : Inside(g, r[1], r[2])
                        \/ \E c \in AnyBuf, v \in Ways :
                             bg[c][v].slab = i /\ Inside(g, bg[c][v].off, bg[c][v].cap)
      BY <1>3 DEF Covered
    <2>1. CASE \E r \in s.free : Inside(g, r[1], r[2])
      <3> PICK r \in s.free : Inside(g, r[1], r[2])
        BY <2>1
      <3>1. CASE r # f
        BY <1>3, <3>1
      <3>2. CASE r = f /\ g < f[1] + len
        <4>1. Inside(g, f[1], len) /\ "place" \in Ways
          BY <3>2 DEF Inside, Ways
        <4> QED
          BY <1>6, <4>1
      <3>3. CASE r = f /\ ~(g < f[1] + len)
        <4>1. f[2] # len /\ Inside(g, f[1] + len, f[2] - len)
          BY <1>1, <1>2, <3>3 DEF Inside
        <4>2. <<f[1] + len, f[2] - len>> \in t.free
          BY <1>3, <4>1
        <4> QED
          BY <4>1, <4>2
      <3> QED
        BY <3>1, <3>2, <3>3
    <2>2. CASE \E c \in AnyBuf, v \in Ways : bf[c][v].slab = i /\ Inside(g, bf[c][v].off, bf[c][v].cap)
      BY <1>9, <2>2
    <2> QED
      BY <2>1, <2>2 DEF Tiled, Covered
  <1>14. Written(t, i, bg)
    <2> SUFFICES ASSUME NEW c \in AnyBuf, bg[c].place.slab = i, NEW g \in Nat,
                        Inside(g, bg[c].place.off, bg[c].len)
                 PROVE  s.mem[g] = c
      BY <1>3 DEF Written
    <2>1. c # b
      <3>1. bg[c].place.off \in Nat
        BY PlaceTypes DEF Ways
      <3> QED
        BY <3>1 DEF Inside
    <2>2. bg[c]["place"] = bf[c]["place"] /\ bg[c].len = bf[c].len
      BY <2>1 DEF OnlyPlace, Ways
    <2>3. bg[c].place = bf[c].place
      BY <2>2, PlaceTypes DEF Ways
    <2> QED
      BY <2>2, <2>3 DEF Tiled, Written
  <1>15. Wiped(t, i, bg)
    <2> SUFFICES ASSUME NEW g \in Nat, g < s.size
                 PROVE  \/ s.mem[g] = Mem!Zero
                        \/ \E c \in AnyBuf, v \in Ways :
                             bg[c][v].slab = i /\ Inside(g, bg[c][v].off, Used(bg, c, v))
      BY <1>3 DEF Wiped
    <2>1. ASSUME NEW c \in AnyBuf, NEW v \in Ways, bf[c][v].slab = i
          PROVE  bg[c][v] = bf[c][v] /\ Used(bg, c, v) = Used(bf, c, v)
      BY <1>6, <1>7, <2>1
    <2> QED
      BY <2>1 DEF Tiled, Wiped
  <1> QED
    BY <1>1, <1>3, <1>10, <1>12, <1>13, <1>14, <1>15 DEF Tiled

\* A granule of one range is none of a range apart from it.
LEMMA NotBoth ==
    ASSUME NEW a \in Nat, NEW m \in Nat, NEW b \in Nat, NEW n \in Nat, NEW z \in Nat, NEW g \in Nat,
           Apart(a, m, b, n), Inside(g, a, m), a + m <= z
    PROVE  g \in 0 .. z - 1 /\ ~Inside(g, b, n)
  BY DEF Apart, Inside

\* Numbers have a least one.
LEMMA LeastIs ==
    ASSUME NEW T \in SUBSET Nat, T # {}
    PROVE  Mem!Min(T) \in T /\ \A y \in T : Mem!Min(T) <= y
  BY Least DEF Mem!Min

\* Numbers below a bound have a greatest.
LEMMA GreatestIs ==
    ASSUME NEW T \in SUBSET Nat, T # {}, NEW n \in Nat, \A x \in T : x <= n
    PROVE  Mem!Max(T) \in T /\ \A y \in T : y <= Mem!Max(T)
  <1>1. PICK x \in T : \A y \in T : y <= x
    BY Greatest
  <1>2. \A y \in T : x >= y
    BY <1>1
  <1>3. Mem!Max(T) \in T /\ \A y \in T : Mem!Max(T) >= y
    BY <1>2 DEF Mem!Max
  <1> QED
    BY <1>3

\* A slab's bytes, changed here and there, are a slab's bytes.
LEMMA ContentsOf ==
    ASSUME NEW s \in SlabSet, DOMAIN s.mem = 0 .. s.size - 1,
           NEW m, m = [g \in DOMAIN s.mem |-> m[g]],
           \A g \in DOMAIN s.mem : m[g] = s.mem[g] \/ m[g] \in AnyBuf \cup {Mem!Zero}
    PROVE  m \in Contents /\ DOMAIN m = 0 .. s.size - 1
  <1>1. s.mem \in Contents /\ s.size \in Nat
    BY DEF SlabSet
  <1>2. PICK n \in Nat : s.mem \in [0 .. n - 1 -> AnyBuf \cup {Mem!Zero}]
    BY <1>1 DEF Contents
  <1>3. m \in [0 .. n - 1 -> AnyBuf \cup {Mem!Zero}]
    BY <1>2
  <1> QED
    BY <1>2, <1>3 DEF Contents

\* Given back, cap granules from off on make one free range with those they touch.
Merged(free, new, size, off, cap, first, last) ==
    /\ first <= off /\ off + cap <= last /\ last <= size
    /\ \A r : r \in new <=>
         \/ r = <<first, last - first>>
         \/ r \in free /\ r[1] # off + cap /\ r[1] + r[2] # off
    /\ \A r \in free : r[1] + r[2] = off => first <= r[1]
    /\ \A r \in free : r[1] = off + cap => r[1] + r[2] <= last
    /\ first = off \/ \E r \in free : r[1] + r[2] = off /\ r[1] = first
    /\ last = off + cap \/ \E r \in free : r[1] = off + cap /\ r[1] + r[2] = last

\* Slab t is slab s with one place wiped and free again, merged with the free
\* ranges it touches.
Released(s, t, off, cap) ==
    /\ t \in SlabSet /\ t.size = s.size /\ t.locked = s.locked /\ t.dedicated = s.dedicated
    /\ t.live = IF s.live = 0 THEN 0 ELSE s.live - 1
    /\ DOMAIN t.mem = 0 .. s.size - 1
    /\ \A g \in 0 .. s.size - 1 :
         t.mem[g] = IF Inside(g, off, cap) THEN Mem!Zero ELSE s.mem[g]
    /\ \E first, last \in Nat : Merged(s.free, t.free, s.size, off, cap, first, last)

\* What SlabRelease gives back: one range, the released one with those it touches.
LEMMA ReleaseParts ==
    ASSUME NEW s \in SlabSet, DOMAIN s.mem = 0 .. s.size - 1, FreeApart(s),
           NEW off \in Nat, NEW cap \in Nat, cap > 0, off + cap <= s.size
    PROVE  Released(s, Mem!SlabRelease(s, off, cap), off, cap)
  <1> DEFINE after == {g \in s.free : g[1] = off + cap}
             before == {g \in s.free : g[1] + g[2] = off}
             starts == {off} \cup {g[1] : g \in before}
             ends == {off + cap} \cup {g[1] + g[2] : g \in after}
             first == Mem!Min(starts)
             last == Mem!Max(ends)
             free == (s.free \ (after \cup before)) \cup {<<first, last - first>>}
             mem == [i \in DOMAIN s.mem |-> IF i \in Mem!Span(off, cap) THEN Mem!Zero ELSE s.mem[i]]
             live == IF s.live = 0 THEN 0 ELSE s.live - 1
  <1>1. /\ s.free \in SUBSET (Nat \X Nat) /\ s.size \in Nat /\ s.live \in Nat
        /\ \A r \in s.free : r[1] \in Nat /\ r[2] \in Nat /\ r[1] + r[2] <= s.size
    BY DEF SlabSet, FreeApart
  <1>2. first \in starts /\ (\A x \in starts : first <= x) /\ first \in Nat
    <2>1. starts \in SUBSET Nat /\ starts # {}
      BY <1>1
    <2> HIDE DEF starts
    <2> QED
      BY <2>1, LeastIs
  <1>3. last \in ends /\ (\A x \in ends : x <= last) /\ last \in Nat
    <2>1. ends \in SUBSET Nat /\ ends # {} /\ \A x \in ends : x <= s.size
      BY <1>1
    <2> HIDE DEF ends
    <2> QED
      BY <1>1, <2>1, GreatestIs
  <1>4. Mem!SlabRelease(s, off, cap) = [s EXCEPT !.live = live, !.free = free, !.mem = mem]
    BY DEF Mem!SlabRelease
  <1>5. /\ first <= off /\ off + cap <= last /\ last <= s.size
        /\ \A r \in s.free : r[1] + r[2] = off => first <= r[1]
        /\ \A r \in s.free : r[1] = off + cap => r[1] + r[2] <= last
        /\ first = off \/ \E r \in s.free : r[1] + r[2] = off /\ r[1] = first
        /\ last = off + cap \/ \E r \in s.free : r[1] = off + cap /\ r[1] + r[2] = last
    <2> HIDE DEF first, last
    <2> QED
      BY <1>1, <1>2, <1>3
  <1>6. \A r : r \in free <=>
                     \/ r = <<first, last - first>>
                     \/ r \in s.free /\ r[1] # off + cap /\ r[1] + r[2] # off
    <2> HIDE DEF first, last
    <2> QED
      OBVIOUS
  <1>7. free \in SUBSET (Nat \X Nat)
    <2>1. last - first \in Nat
      BY <1>2, <1>3, <1>5
    <2> HIDE DEF first, last
    <2> QED
      BY <1>1, <1>2, <2>1
  <1>8. mem \in Contents /\ DOMAIN mem = 0 .. s.size - 1
    BY ContentsOf
  <1>9. \A g \in 0 .. s.size - 1 : mem[g] = IF Inside(g, off, cap) THEN Mem!Zero ELSE s.mem[g]
    BY <1>1 DEF Mem!Span, Inside
  <1>10. live \in Nat
    BY <1>1
  <1> HIDE DEF free, mem, live
  <1>11. LET t == Mem!SlabRelease(s, off, cap) IN
         /\ t \in SlabSet /\ t.size = s.size /\ t.locked = s.locked /\ t.dedicated = s.dedicated
         /\ t.free = free /\ t.live = live /\ t.mem = mem
    BY <1>4, <1>7, <1>8, <1>10 DEF SlabSet
  <1>12. live = IF s.live = 0 THEN 0 ELSE s.live - 1
    BY DEF live
  <1> HIDE DEF first, last
  <1>13. Merged(s.free, free, s.size, off, cap, first, last)
    BY <1>5, <1>6 DEF Merged
  <1>14. \E a, z \in Nat : Merged(s.free, free, s.size, off, cap, a, z)
    BY <1>2, <1>3, <1>13
  <1> QED
    BY <1>8, <1>9, <1>11, <1>12, <1>14 DEF Released

\* A place given back joins the free ranges, wiped.
LEMMA ReleaseTiled ==
    ASSUME NEW s, NEW i, NEW bf \in Bufs, NEW bg \in Bufs, NEW b \in AnyBuf, NEW w \in Ways,
           Tiled(s, i, bf), bf[b][w].slab = i, bg[b][w].slab # i, OnlyPlace(bf, bg, b, w),
           \A c \in AnyBuf : bf[c].len <= bf[c].place.cap
    PROVE  Tiled(Mem!SlabRelease(s, bf[b][w].off, bf[b][w].cap), i, bg)
  <1> PICK off, cap : off = bf[b][w].off /\ cap = bf[b][w].cap
    OBVIOUS
  <1> PICK t : t = Mem!SlabRelease(s, off, cap)
    OBVIOUS
  <1>1. s \in SlabSet /\ DOMAIN s.mem = 0 .. s.size - 1 /\ FreeApart(s) /\ s.size \in Nat
    BY DEF Tiled, SlabSet
  <1>2. off \in Nat /\ cap \in Nat /\ cap > 0 /\ off + cap <= s.size
    BY PlaceTypes DEF Tiled, PlacesApart
  <1>2a. Released(s, t, off, cap)
    BY <1>1, <1>2, ReleaseParts, SMTT(30)
  <1>3. /\ t \in SlabSet /\ t.size = s.size /\ t.dedicated = s.dedicated
        /\ DOMAIN t.mem = 0 .. s.size - 1
        /\ \A g \in 0 .. s.size - 1 :
                t.mem[g] = IF Inside(g, off, cap) THEN Mem!Zero ELSE s.mem[g]
    BY <1>2a DEF Released
  <1> PICK first, last \in Nat : Merged(s.free, t.free, s.size, off, cap, first, last)
    BY <1>2a DEF Released
  <1>4.
                /\ first <= off /\ off + cap <= last /\ last <= s.size
                /\ \A r : r \in t.free <=>
                     \/ r = <<first, last - first>>
                     \/ r \in s.free /\ r[1] # off + cap /\ r[1] + r[2] # off
                /\ \A r \in s.free : r[1] + r[2] = off => first <= r[1]
                /\ \A r \in s.free : r[1] = off + cap => r[1] + r[2] <= last
                /\ first = off \/ \E r \in s.free : r[1] + r[2] = off /\ r[1] = first
                /\ last = off + cap \/ \E r \in s.free : r[1] = off + cap /\ r[1] + r[2] = last
    BY DEF Merged
  <1>5. \A r \in s.free : r[1] \in Nat /\ r[2] \in Nat /\ r[2] > 0 /\ r[1] + r[2] <= s.size
    BY <1>1 DEF SlabSet, FreeApart
  <1>6. \A r, h \in s.free : r = h \/ Apart(r[1], r[2], h[1], h[2])
    BY <1>1 DEF FreeApart
  <1>7. \A r \in s.free : Apart(r[1], r[2], off, cap)
    BY DEF Tiled, PlacesApart
  <1>8. \A c \in AnyBuf, v \in Ways :
          bg[c][v].slab = i => /\ c # b \/ v # w
                               /\ bg[c][v] = bf[c][v] /\ Used(bg, c, v) = Used(bf, c, v)
    BY DEF OnlyPlace
  <1>9. \A c \in AnyBuf, v \in Ways :
          bf[c][v].slab = i => \/ c = b /\ v = w
                               \/ bg[c][v].slab = i /\ bg[c][v] = bf[c][v] /\ Used(bg, c, v) = Used(bf, c, v)
    BY DEF OnlyPlace
  <1>10. \A c \in AnyBuf, v \in Ways : bg[c][v].off \in Nat /\ bg[c][v].cap \in Nat /\ Used(bg, c, v) \in Nat
    BY PlaceTypes
  <1>11. ASSUME NEW a \in Nat, NEW n \in Nat, n > 0, Apart(a, n, off, cap),
                \A r \in s.free : r[1] + r[2] = off \/ r[1] = off + cap => Apart(r[1], r[2], a, n)
         PROVE  Apart(first, last - first, a, n)
    <2>1. first = off \/ (first < off /\ Apart(first, off - first, a, n))
      <3> SUFFICES ASSUME first # off PROVE first < off /\ Apart(first, off - first, a, n)
        OBVIOUS
      <3>1. PICK r \in s.free : r[1] + r[2] = off /\ r[1] = first
        BY <1>4
      <3>2. Apart(r[1], r[2], a, n) /\ r[2] = off - first
        BY <1>2, <1>5, <1>11, <3>1
      <3> QED
        BY <1>4, <1>2, <3>1, <3>2
    <2>2. last = off + cap \/ (last > off + cap /\ Apart(off + cap, last - (off + cap), a, n))
      <3> SUFFICES ASSUME last # off + cap PROVE last > off + cap /\ Apart(off + cap, last - (off + cap), a, n)
        OBVIOUS
      <3>1. PICK r \in s.free : r[1] = off + cap /\ r[1] + r[2] = last
        BY <1>4
      <3>2. Apart(r[1], r[2], a, n) /\ r[2] = last - (off + cap)
        BY <1>2, <1>5, <1>11, <3>1
      <3> QED
        BY <1>4, <1>2, <3>1, <3>2
    <2> QED
      BY <1>2, <1>4, <1>11, <2>1, <2>2 DEF Apart
  <1>12. FreeApart(t)
    <2>1. \A r \in t.free : r[2] > 0 /\ r[1] + r[2] <= t.size
      <3>1. last - first > 0 /\ first + (last - first) <= t.size
        BY <1>2, <1>3, <1>4, SMTT(30)
      <3> QED
        BY <1>3, <1>4, <1>5, <3>1
    <2>2. ASSUME NEW r \in s.free, r[1] # off + cap, r[1] + r[2] # off
          PROVE  Apart(first, last - first, r[1], r[2])
      <3>1. r[1] \in Nat /\ r[2] \in Nat /\ r[2] > 0 /\ Apart(r[1], r[2], off, cap)
        BY <1>5, <1>7
      <3>2. \A h \in s.free : h[1] + h[2] = off \/ h[1] = off + cap => Apart(h[1], h[2], r[1], r[2])
        BY <1>6, <2>2
      <3> QED
        BY <1>11, <3>1, <3>2
    <2>3. ASSUME NEW r \in t.free, NEW h \in t.free, r # h PROVE Apart(r[1], r[2], h[1], h[2])
      <3>1. CASE r \in s.free /\ r[1] # off + cap /\ r[1] + r[2] # off
        <4>1. CASE h = <<first, last - first>>
          BY <2>2, <3>1, <4>1 DEF Apart
        <4>2. CASE h \in s.free
          BY <1>6, <2>3, <3>1, <4>2
        <4> QED
          BY <1>4, <4>1, <4>2
      <3>2. CASE r = <<first, last - first>>
        BY <1>4, <2>2, <2>3, <3>2
      <3> QED
        BY <1>4, <3>1, <3>2
    <2> QED
      BY <2>1, <2>3, SMTT(30) DEF FreeApart
  <1>13. PlacesApart(t, i, bg)
    <2>1. ASSUME NEW c \in AnyBuf, NEW v \in Ways, bg[c][v].slab = i
          PROVE  /\ bg[c][v].cap > 0 /\ bg[c][v].off + bg[c][v].cap <= t.size
                 /\ \A r \in t.free : Apart(r[1], r[2], bg[c][v].off, bg[c][v].cap)
      <3>1. bg[c][v] = bf[c][v] /\ (c # b \/ v # w)
        BY <1>8, <2>1
      <3>2. /\ bg[c][v].cap > 0 /\ bg[c][v].off + bg[c][v].cap <= s.size
            /\ \A r \in s.free : Apart(r[1], r[2], bg[c][v].off, bg[c][v].cap)
        BY <2>1, <3>1 DEF Tiled, PlacesApart
      <3>3. Apart(bg[c][v].off, bg[c][v].cap, off, cap)
        BY <2>1, <3>1 DEF Tiled, PlacesApart
      <3>4. Apart(first, last - first, bg[c][v].off, bg[c][v].cap)
        BY <1>10, <1>11, <3>2, <3>3
      <3>5. \A r \in t.free : Apart(r[1], r[2], bg[c][v].off, bg[c][v].cap)
        BY <1>4, <3>2, <3>4
      <3> QED
        BY <1>3, <3>2, <3>5
    <2>2. ASSUME NEW c \in AnyBuf, NEW d \in AnyBuf, NEW v \in Ways, NEW u \in Ways,
                 bg[c][v].slab = i, bg[d][u].slab = i, ~(c = d /\ v = u)
          PROVE  ~t.dedicated /\ Apart(bg[c][v].off, bg[c][v].cap, bg[d][u].off, bg[d][u].cap)
      <3>1. bg[c][v] = bf[c][v] /\ bg[d][u] = bf[d][u]
        BY <1>8, <2>2
      <3> QED
        BY <1>3, <2>2, <3>1 DEF Tiled, PlacesApart
    <2> QED
      BY <2>1, <2>2 DEF PlacesApart
  <1>14. Covered(t, i, bg)
    <2> SUFFICES ASSUME NEW g \in Nat, g < s.size
                 PROVE  \/ \E r \in t.free : Inside(g, r[1], r[2])
                        \/ \E c \in AnyBuf, v \in Ways :
                             bg[c][v].slab = i /\ Inside(g, bg[c][v].off, bg[c][v].cap)
      BY <1>3 DEF Covered
    <2>1. ASSUME first <= g, g < last PROVE \E r \in t.free : Inside(g, r[1], r[2])
      <3>1. Inside(g, first, last - first)
        BY <2>1 DEF Inside
      <3> QED
        BY <1>4, <3>1
    <2>2. CASE \E r \in s.free : Inside(g, r[1], r[2])
      <3> PICK r \in s.free : Inside(g, r[1], r[2])
        BY <2>2
      <3>1. CASE r[1] # off + cap /\ r[1] + r[2] # off
        BY <1>4, <3>1
      <3>2. CASE r[1] = off + cap \/ r[1] + r[2] = off
        <4>1. first <= g /\ g < last
          BY <1>2, <1>4, <1>5, <3>2 DEF Inside
        <4> QED
          BY <2>1, <4>1
      <3> QED
        BY <3>1, <3>2
    <2>3. CASE \E c \in AnyBuf, v \in Ways : bf[c][v].slab = i /\ Inside(g, bf[c][v].off, bf[c][v].cap)
      <3> PICK c \in AnyBuf, v \in Ways : bf[c][v].slab = i /\ Inside(g, bf[c][v].off, bf[c][v].cap)
        BY <2>3
      <3>1. CASE c = b /\ v = w
        <4>1. first <= g /\ g < last
          BY <1>2, <1>4, <3>1 DEF Inside
        <4> QED
          BY <2>1, <4>1
      <3>2. CASE ~(c = b /\ v = w)
        BY <1>9, <3>2
      <3> QED
        BY <3>1, <3>2
    <2> QED
      BY <2>2, <2>3 DEF Tiled, Covered
  <1>15. Written(t, i, bg)
    <2> SUFFICES ASSUME NEW c \in AnyBuf, bg[c].place.slab = i, NEW g \in Nat,
                        Inside(g, bg[c].place.off, bg[c].len)
                 PROVE  t.mem[g] = c
      BY DEF Written
    <2>1. "place" \in Ways /\ bg[c]["place"] = bg[c].place /\ bf[c]["place"] = bf[c].place
      BY PlaceTypes DEF Ways
    <2>2. /\ bg[c].place = bf[c].place /\ (c # b \/ "place" # w)
          /\ bg[c].len = bf[c].len
      BY <1>8, <2>1 DEF Used
    <2>3. s.mem[g] = c
      BY <2>2 DEF Tiled, Written
    <2>4. bf[c].place.off \in Nat /\ bf[c].place.cap \in Nat /\ bf[c].len \in Nat
      BY <2>1, PlaceTypes
    <2>5. Inside(g, bf[c].place.off, bf[c].place.cap)
      BY <2>2, <2>4 DEF Inside
    <2>6. Apart(bf[c].place.off, bf[c].place.cap, off, cap) /\ bf[c].place.off + bf[c].place.cap <= s.size
      BY <2>1, <2>2 DEF Tiled, PlacesApart
    <2>7. g \in 0 .. s.size - 1 /\ ~Inside(g, off, cap)
      BY <1>1, <1>2, <2>4, <2>5, <2>6, NotBoth
    <2> QED
      BY <1>3, <2>3, <2>7
  <1>16. Wiped(t, i, bg)
    <2> SUFFICES ASSUME NEW g \in Nat, g < s.size, t.mem[g] # Mem!Zero
                 PROVE  \E c \in AnyBuf, v \in Ways :
                             bg[c][v].slab = i /\ Inside(g, bg[c][v].off, Used(bg, c, v))
      BY <1>3 DEF Wiped
    <2>1. s.mem[g] # Mem!Zero /\ ~Inside(g, off, cap)
      <3>1. g \in 0 .. s.size - 1
        BY <1>1
      <3> QED
        BY <1>3, <3>1
    <2>2. PICK c \in AnyBuf, v \in Ways : bf[c][v].slab = i /\ Inside(g, bf[c][v].off, Used(bf, c, v))
      BY <2>1 DEF Tiled, Wiped
    <2>3. ~(c = b /\ v = w)
      <3> SUFFICES ASSUME c = b, v = w PROVE Inside(g, off, cap)
        BY <2>1
      <3>1. Used(bf, b, w) <= cap
        BY PlaceTypes DEF Used, Ways
      <3>2. Used(bf, b, w) \in Nat
        BY PlaceTypes
      <3> QED
        BY <1>2, <2>2, <3>1, <3>2 DEF Inside
    <2> QED
      BY <1>9, <2>2, <2>3
  <1> QED
    BY <1>3, <1>12, <1>13, <1>14, <1>15, <1>16 DEF Tiled

\* A slab whose granules lo .. hi - 1 from off on have come to hold what.
Repainted(s, off, lo, hi, what) ==
    [s EXCEPT !.mem = [g \in DOMAIN s.mem |-> IF g - off \in lo .. hi - 1 THEN what ELSE s.mem[g]]]

\* What that changes: the bytes, and them alone.
Repaints(s, t, off, lo, hi, what) ==
    /\ t \in SlabSet /\ t.size = s.size /\ t.locked = s.locked /\ t.dedicated = s.dedicated
    /\ t.free = s.free /\ t.live = s.live /\ DOMAIN t.mem = 0 .. s.size - 1
    /\ \A g \in 0 .. s.size - 1 :
         t.mem[g] = IF off + lo <= g /\ g < off + hi THEN what ELSE s.mem[g]

\* A slab painted over: what changes in it.
LEMMA RepaintParts ==
    ASSUME NEW s \in SlabSet, DOMAIN s.mem = 0 .. s.size - 1, NEW off \in Nat, NEW lo \in Nat, NEW hi \in Nat,
           NEW what \in AnyBuf \cup {Mem!Zero}
    PROVE  Repaints(s, Repainted(s, off, lo, hi, what), off, lo, hi, what)
  <1> PICK t : t = Repainted(s, off, lo, hi, what)
    OBVIOUS
  <1> DEFINE m == [g \in DOMAIN s.mem |-> IF g - off \in lo .. hi - 1 THEN what ELSE s.mem[g]]
  <1>1. s.size \in Nat
    BY DEF SlabSet
  <1>2. m \in Contents /\ DOMAIN m = 0 .. s.size - 1
    BY ContentsOf
  <1>3. \A g \in 0 .. s.size - 1 :
                m[g] = IF off + lo <= g /\ g < off + hi THEN what ELSE s.mem[g]
    BY <1>1
  <1>4. t = [s EXCEPT !.mem = m]
    BY DEF Repainted
  <1> HIDE DEF m
  <1> QED
    BY <1>2, <1>3, <1>4 DEF SlabSet, Repaints

\* A granule of the beginning of a range is one of the range.
LEMMA InsideMore ==
    ASSUME NEW g \in Nat, NEW a \in Nat, NEW l \in Nat, NEW n \in Nat,
           Inside(g, a, l), l <= n
    PROVE  Inside(g, a, n) /\ g < a + n
  BY DEF Inside

\* A buffer's bytes written behind its last, or wiped from the end.
LEMMA RepaintTiled ==
    ASSUME NEW s, NEW i, NEW bf \in Bufs, NEW bg \in Bufs, NEW b \in AnyBuf, NEW lo \in Nat, NEW hi \in Nat,
           NEW what,
           Tiled(s, i, bf), bf[b].place.slab = i,
           \A c \in AnyBuf : bf[c].len <= bf[c].place.cap,
           \A c \in AnyBuf, v \in Ways : bg[c][v] = bf[c][v],
           \A c \in AnyBuf : c # b => bg[c].len = bf[c].len,
           lo <= hi, hi <= bf[b].place.cap,
           \/ what = b /\ bf[b].len = lo /\ bg[b].len = hi
           \/ what = Mem!Zero /\ bf[b].len = hi /\ bg[b].len = lo
    PROVE  Tiled(Repainted(s, bf[b].place.off, lo, hi, what), i, bg)
  <1>0. PICK off, cap : off = bf[b].place.off /\ cap = bf[b].place.cap
    OBVIOUS
  <1> PICK t : t = Repainted(s, off, lo, hi, what)
    OBVIOUS
  <1>a. s \in SlabSet /\ DOMAIN s.mem = 0 .. s.size - 1
    BY DEF Tiled
  <1>1. s \in SlabSet /\ DOMAIN s.mem = 0 .. s.size - 1 /\ s.size \in Nat
    BY <1>a DEF SlabSet
  <1>2. "place" \in Ways /\ off \in Nat /\ cap \in Nat
    BY <1>0, PlaceTypes DEF Ways
  <1>3. /\ t \in SlabSet /\ t.size = s.size /\ t.dedicated = s.dedicated /\ t.free = s.free
        /\ DOMAIN t.mem = 0 .. s.size - 1
        /\ \A g \in Nat : g < s.size =>
                t.mem[g] = IF off + lo <= g /\ g < off + hi THEN what ELSE s.mem[g]
    <2>1. what \in AnyBuf \cup {Mem!Zero}
      OBVIOUS
    <2>2. Repaints(s, t, off, lo, hi, what)
      BY <1>a, <1>2, <2>1, RepaintParts
    <2> QED
      BY <1>1, <2>2 DEF Repaints
  <1>4. FreeApart(t) /\ PlacesApart(t, i, bg) /\ Covered(t, i, bg)
    BY <1>0, <1>3 DEF Tiled, FreeApart, PlacesApart, Covered
  <1>5. \A c \in AnyBuf : /\ bg[c].place = bf[c].place /\ bg[c].old = bf[c].old
                          /\ bf[c]["place"] = bf[c].place
    BY <1>0, <1>2, PlaceTypes DEF Ways
  <1>6. Written(t, i, bg)
    <2> SUFFICES ASSUME NEW c \in AnyBuf, bg[c].place.slab = i, NEW g \in Nat,
                        Inside(g, bg[c].place.off, bg[c].len)
                 PROVE  t.mem[g] = c
      BY DEF Written
    <2>1. /\ bf[c].place.off \in Nat /\ bf[c].place.cap \in Nat /\ bg[c].len \in Nat
          /\ bg[c].len <= bf[c].place.cap /\ bf[c].place.off + bf[c].place.cap <= s.size
      <3>1. bf[c].place.off + bf[c].place.cap <= s.size
        BY <1>0, <1>2, <1>5 DEF Tiled, PlacesApart
      <3>2. bg[c].len <= bf[c].place.cap
        BY <1>0, <1>2
      <3> QED
        BY <1>0, <1>2, <3>1, <3>2, PlaceTypes
    <2>2. Inside(g, bf[c].place.off, bf[c].place.cap) /\ g < s.size
      <3> PICK o, n, l : o = bf[c].place.off /\ n = bf[c].place.cap /\ l = bg[c].len
        OBVIOUS
      <3>1. o \in Nat /\ n \in Nat /\ l \in Nat /\ l <= n /\ o + n <= s.size
        BY <1>0, <2>1
      <3>2. Inside(g, o, l)
        BY <1>0, <1>5
      <3>3. Inside(g, o, n) /\ g < o + n
        BY <1>0, <3>1, <3>2, InsideMore
      <3> QED
        BY <1>0, <1>1, <3>1, <3>3
    <2>3. CASE c # b
      <3>1. Apart(bf[c].place.off, bf[c].place.cap, off, cap)
        BY <1>0, <1>2, <1>5, <2>3 DEF Tiled, PlacesApart
      <3>2. ~Inside(g, off, cap)
        BY <1>0, <1>1, <1>2, <2>1, <2>2, <3>1, NotBoth
      <3>3. t.mem[g] = s.mem[g]
        BY <1>0, <1>2, <1>3, <2>2, <3>2, SMTT(30) DEF Inside
      <3> QED
        BY <1>0, <1>5, <2>3, <3>3 DEF Tiled, Written
    <2>4. CASE c = b /\ bg[b].len = hi /\ what = b /\ bf[b].len = lo
      <3>1. CASE g < off + lo
        <4>1. Inside(g, off, lo)
          BY <1>0, <1>5, <2>4, <3>1 DEF Inside
        <4> QED
          BY <1>0, <1>2, <1>3, <2>2, <2>4, <3>1, <4>1 DEF Tiled, Written
      <3>2. CASE ~(g < off + lo)
        <4>1. Inside(g, off, hi)
          BY <1>0, <1>5, <2>4
        <4>2. off + lo <= g /\ g < off + hi
          BY <1>0, <1>2, <3>2, <4>1 DEF Inside
        <4> QED
          BY <1>0, <1>3, <2>2, <2>4, <4>2
      <3> QED
        BY <1>0, <3>1, <3>2
    <2>5. CASE c = b /\ bg[b].len = lo /\ bf[b].len = hi
      <3>1. Inside(g, off, hi) /\ g < off + lo
        BY <1>0, <1>2, <1>5, <2>5 DEF Inside
      <3>2. s.mem[g] = b
        BY <1>0, <2>5, <3>1 DEF Tiled, Written
      <3> QED
        BY <1>0, <1>2, <1>3, <2>2, <2>5, <3>1, <3>2
    <2> QED
      BY <1>0, <2>3, <2>4, <2>5
  <1>7. Wiped(t, i, bg)
    <2> SUFFICES ASSUME NEW g \in Nat, g < s.size, t.mem[g] # Mem!Zero
                 PROVE  \E c \in AnyBuf, v \in Ways :
                             bg[c][v].slab = i /\ Inside(g, bg[c][v].off, Used(bg, c, v))
      BY <1>0, <1>3 DEF Wiped
    <2>1. \A c \in AnyBuf, v \in Ways : c # b \/ v # "place" => Used(bg, c, v) = Used(bf, c, v)
      BY <1>0, <1>5 DEF Used
    <2>2. Used(bg, b, "place") = bg[b].len /\ Used(bf, b, "place") = bf[b].len
      BY DEF Used
    <2>3. bg[b]["place"].slab = i /\ bg[b]["place"].off = off
      BY <1>0, <1>2, <1>5
    <2>4. CASE off + lo <= g /\ g < off + hi
      <3>1. what = b /\ bg[b].len = hi
        BY <1>0, <1>3, <2>4
      <3>2. Inside(g, off, bg[b].len)
        BY <1>0, <1>2, <2>4, <3>1 DEF Inside
      <3> QED
        BY <1>0, <1>2, <2>2, <2>3, <3>2
    <2>5. CASE ~(off + lo <= g /\ g < off + hi)
      <3>1. s.mem[g] # Mem!Zero
        BY <1>0, <1>3, <2>5
      <3>2. PICK c \in AnyBuf, v \in Ways : bf[c][v].slab = i /\ Inside(g, bf[c][v].off, Used(bf, c, v))
        BY <1>0, <3>1 DEF Tiled, Wiped
      <3>3. CASE c # b \/ v # "place"
        BY <1>0, <2>1, <3>2, <3>3
      <3>4. CASE c = b /\ v = "place"
        <4>1. Inside(g, off, bf[b].len)
          BY <1>0, <1>5, <2>2, <3>2, <3>4
        <4>2. Inside(g, off, bg[b].len)
          BY <1>0, <1>2, <2>5, <4>1 DEF Inside
        <4> QED
          BY <1>0, <1>2, <2>2, <2>3, <4>2
      <3> QED
        BY <1>0, <3>3, <3>4
    <2> QED
      BY <1>0, <2>4, <2>5
  <1> QED
    BY <1>0, <1>3, <1>4, <1>6, <1>7 DEF Tiled

\* A slab of whole pages holds what it was mapped for.
LEMMA PagesHold ==
    ASSUME NEW want \in Nat, want > 0, Page \in Nat \ {0}
    PROVE  ((want + Page - 1) \div Page) * Page \in Nat /\ ((want + Page - 1) \div Page) * Page >= want
  OBVIOUS

\* A slab just mapped is free, and zero.
Fresh(s, i, bf, cap, dedicated, locked) ==
    /\ Tiled(s, i, bf) /\ s.size > 0 /\ s.dedicated = dedicated /\ s.locked = locked /\ s.live = 0
    /\ Mem!Fits(s, cap) # {} /\ Mem!FirstFit(s, cap)[1] = 0

\* A new slab is all free and holds zeros.
LEMMA MapTiled ==
    ASSUME NEW want \in Nat, want > 0, Page \in Nat \ {0}, NEW dedicated \in BOOLEAN, NEW locked \in BOOLEAN,
           NEW i, NEW bf, \A c \in AnyBuf, v \in Ways : bf[c][v].slab # i,
           NEW cap \in Nat, cap <= want
    PROVE  Fresh(Mem!SlabMap(want, dedicated, locked), i, bf, cap, dedicated, locked)
  <1> PICK size : size = ((want + Page - 1) \div Page) * Page
    OBVIOUS
  <1>1. size \in Nat /\ size >= want
    BY PagesHold
  <1> PICK s : s = Mem!SlabMap(want, dedicated, locked)
    OBVIOUS
  <1>2. s = [size |-> size, locked |-> locked, dedicated |-> dedicated, free |-> {<<0, size>>},
             live |-> 0, mem |-> [g \in Mem!Span(0, size) |-> Mem!Zero]]
    BY DEF Mem!SlabMap
  <1>3. Mem!Span(0, size) = 0 .. size - 1
    BY <1>1 DEF Mem!Span
  <1>4. [g \in 0 .. size - 1 |-> Mem!Zero] \in Contents
    BY <1>1 DEF Contents
  <1>5. s \in SlabSet /\ DOMAIN s.mem = 0 .. s.size - 1
    BY <1>1, <1>2, <1>3, <1>4 DEF SlabSet
  <1>6. s.size = size /\ s.free = {<<0, size>>} /\ \A g \in Nat : g < size => s.mem[g] = Mem!Zero
    BY <1>1, <1>2, <1>3
  <1>7. FreeApart(s)
    BY <1>1, <1>6 DEF FreeApart
  <1>8. PlacesApart(s, i, bf) /\ Written(s, i, bf)
    <2>1. Written(s, i, bf)
      <3>1. \A c \in AnyBuf : bf[c]["place"].slab # i
        BY DEF Ways
      <3> QED
        BY <3>1 DEF Written
    <2> QED
      BY <2>1 DEF PlacesApart
  <1>9. Covered(s, i, bf) /\ Wiped(s, i, bf)
    BY <1>1, <1>6 DEF Covered, Wiped, Inside
  <1>10. Mem!Fits(s, cap) = {<<0, size>>}
    BY <1>1, <1>6 DEF Mem!Fits
  <1>11. Mem!FirstFit(s, cap) = <<0, size>>
    BY <1>1, <1>10 DEF Mem!FirstFit
  <1>12. s.size > 0 /\ s.dedicated = dedicated /\ s.locked = locked /\ s.live = 0
    BY <1>1, <1>2
  <1>13. Mem!Fits(s, cap) # {} /\ Mem!FirstFit(s, cap)[1] = 0
    BY <1>10, <1>11
  <1>14. Tiled(s, i, bf)
    BY <1>5, <1>7, <1>8, <1>9 DEF Tiled
  <1> QED
    BY <1>12, <1>13, <1>14 DEF Fresh

----------------------------------------------------------------------------
\* The bytes that are locked, and those that are not, as the counters are to have them.

\* A sum is what any one element adds to the rest.
LEMMA SumRest ==
    ASSUME NEW S, IsFiniteSet(S), NEW w \in [S -> Nat], NEW g, IsSum(g, w, S)
    PROVE  \A s \in SUBSET S : \A k \in s : g[s] = w[k] + g[s \ {k}]
  <1> DEFINE Right(s) == \A k \in s : g[s] = w[k] + g[s \ {k}]
             Bad == {n \in Nat : \E s \in SUBSET S : Cardinality(s) = n /\ ~Right(s)}
  <1>0. \A s \in SUBSET S : IsFiniteSet(s) /\ Cardinality(s) \in Nat /\ g[s] \in Nat
    BY FS_Subset, FS_CardinalityType, SumCovers
  <1>1. \A s \in SUBSET S : g[s] = SumAt(g, w, s)
    BY DEF IsSum
  <1>2. Bad = {}
    <2>1. SUFFICES ASSUME Bad # {} PROVE FALSE
      OBVIOUS
    <2>2. PICK n \in Bad : \A m \in Bad : n <= m
      <3>1. Bad \in SUBSET Nat
        OBVIOUS
      <3> HIDE DEF Bad
      <3> QED
        BY <2>1, <3>1, Least
    <2>3. PICK s \in SUBSET S : Cardinality(s) = n /\ ~Right(s)
      OBVIOUS
    <2>4. PICK k \in s : g[s] # w[k] + g[s \ {k}]
      BY <2>3
    <2>5. s # {}
      BY <2>4
    <2> PICK x : x = Pick(s)
      OBVIOUS
    <2>6. x \in s /\ s \ {x} \in SUBSET S /\ Cardinality(s \ {x}) = n - 1 /\ n \in Nat /\ n >= 1
      BY <2>3, <2>5, Smaller
    <2>7. g[s] = w[x] + g[s \ {x}]
      BY <1>1, <2>5 DEF SumAt
    <2>8. x # k
      BY <2>4, <2>7
    <2>9. s \ {k} \in SUBSET S /\ Cardinality(s \ {k}) = n - 1
      BY <1>0, <2>3, <2>4, FS_RemoveElement
    <2>10. n - 1 \notin Bad
      <3>1. ~(n <= n - 1)
        BY <2>6
      <3> QED
        BY <2>2, <3>1
    <2>11. n - 1 \in Nat
      BY <2>6
    <2>12. Right(s \ {x}) /\ Right(s \ {k})
      BY <2>6, <2>9, <2>10, <2>11
    <2>13. g[s \ {x}] = w[k] + g[(s \ {x}) \ {k}] /\ g[s \ {k}] = w[x] + g[(s \ {k}) \ {x}]
      BY <2>4, <2>6, <2>8, <2>12
    <2>14. (s \ {x}) \ {k} = (s \ {k}) \ {x} /\ (s \ {x}) \ {k} \in SUBSET S
      OBVIOUS
    <2> PICK r : r = (s \ {x}) \ {k}
      OBVIOUS
    <2>15. g[r] \in Nat /\ w[x] \in Nat /\ w[k] \in Nat
      BY <1>0, <2>4, <2>6, <2>14
    <2>16. g[s \ {x}] = w[k] + g[r] /\ g[s \ {k}] = w[x] + g[r]
      BY <2>13, <2>14
    <2>17. g[s] = w[x] + (w[k] + g[r]) /\ g[s] # w[k] + (w[x] + g[r])
      BY <2>4, <2>7, <2>16
    <2> QED
      BY <2>15, <2>17
  <1>3. ASSUME NEW s \in SUBSET S PROVE Right(s)
    BY <1>0, <1>2
  <1> QED
    BY <1>3

\* A sum depends on what is summed and on nothing else.
LEMMA SumSame ==
    ASSUME NEW S, IsFiniteSet(S), NEW w \in [S -> Nat], NEW g, IsSum(g, w, S),
           NEW T, IsFiniteSet(T), NEW v \in [T -> Nat], NEW h, IsSum(h, v, T),
           NEW r, r \subseteq S, r \subseteq T, \A k \in r : w[k] = v[k]
    PROVE  g[r] = h[r]
  <1> DEFINE Right(s) == g[s] = h[s]
             Bad == {n \in Nat : \E s \in SUBSET r : Cardinality(s) = n /\ ~Right(s)}
  <1>0. \A s \in SUBSET r : s \in SUBSET S /\ s \in SUBSET T /\ IsFiniteSet(s) /\ Cardinality(s) \in Nat
    BY FS_Subset, FS_CardinalityType
  <1>1. \A s \in SUBSET r : g[s] = SumAt(g, w, s) /\ h[s] = SumAt(h, v, s)
    BY <1>0 DEF IsSum
  <1>2. Bad = {}
    <2>1. SUFFICES ASSUME Bad # {} PROVE FALSE
      OBVIOUS
    <2>2. PICK n \in Bad : \A m \in Bad : n <= m
      <3>1. Bad \in SUBSET Nat
        OBVIOUS
      <3> HIDE DEF Bad
      <3> QED
        BY <2>1, <3>1, Least
    <2>3. PICK s \in SUBSET r : Cardinality(s) = n /\ ~Right(s)
      OBVIOUS
    <2>4. s # {}
      BY <1>1, <2>3 DEF SumAt
    <2> PICK x : x = Pick(s)
      OBVIOUS
    <2>5. x \in s /\ Cardinality(s \ {x}) = n - 1 /\ n \in Nat /\ n >= 1
      BY <1>0, <2>3, <2>4, Smaller
    <2>6. n - 1 \in Nat /\ ~(n <= n - 1)
      BY <2>5
    <2>7. Right(s \ {x})
      BY <2>2, <2>3, <2>5, <2>6
    <2>8. g[s] = w[x] + g[s \ {x}] /\ h[s] = v[x] + h[s \ {x}]
      BY <1>1, <2>4 DEF SumAt
    <2>9. w[x] = v[x]
      BY <2>3, <2>5
    <2> QED
      BY <2>3, <2>7, <2>8, <2>9
  <1>3. Right(r)
    BY <1>0, <1>2
  <1> QED
    BY <1>3

\* What is summed, and by which sum; one element's part in it; and two sums that differ by one.
SumOver(S, w, g) == IsFiniteSet(S) /\ w \in [S -> Nat] /\ IsSum(g, w, S)
Part(S, w, i) == IF i \in S THEN w[i] ELSE 0
SumsTell(x, y, a, b) == x \in Nat /\ y \in Nat /\ a \in Nat /\ b \in Nat /\ b - y = a - x

\* Two sums of what differs in one element.
LEMMA SumsDiffer ==
    ASSUME NEW S, NEW w, NEW g, SumOver(S, w, g), NEW T, NEW v, NEW h, SumOver(T, v, h),
           NEW i, S \ {i} = T \ {i}, \A k \in S \ {i} : w[k] = v[k]
    PROVE  SumsTell(Part(S, w, i), Part(T, v, i), g[S], h[T])
  <1>0. /\ IsFiniteSet(S) /\ w \in [S -> Nat] /\ IsSum(g, w, S)
        /\ IsFiniteSet(T) /\ v \in [T -> Nat] /\ IsSum(h, v, T)
    BY DEF SumOver
  <1> PICK x, y : x = Part(S, w, i) /\ y = Part(T, v, i)
    OBVIOUS
  <1> PICK r : r = S \ {i}
    OBVIOUS
  <1>1. r = T \ {i} /\ r \subseteq S /\ r \subseteq T
    OBVIOUS
  <1>2. g[r] = h[r]
    BY <1>0, <1>1, SumSame
  <1>3. g[S] \in Nat /\ g[r] \in Nat /\ h[T] \in Nat
    <2>1. S \in SUBSET S /\ r \in SUBSET S /\ T \in SUBSET T
      BY <1>1
    <2>2. g[S] \in Nat /\ g[r] \in Nat
      BY <1>0, <2>1, SumCovers
    <2>3. h[T] \in Nat
      BY <1>0, <2>1, SumCovers
    <2> QED
      BY <2>2, <2>3
  <1>4. x \in Nat /\ y \in Nat
    BY <1>0 DEF Part
  <1>5. g[S] = x + g[r]
    <2>1. CASE i \in S
      <3>1. S \in SUBSET S
        OBVIOUS
      <3>2. g[S] = w[i] + g[S \ {i}]
        BY <1>0, <2>1, <3>1, SumRest, SMTT(30)
      <3> QED
        BY <2>1, <3>2 DEF Part
    <2>2. CASE i \notin S
      <3>1. r = S /\ x = 0
        BY <2>2 DEF Part
      <3> QED
        BY <1>3, <3>1
    <2> QED
      BY <2>1, <2>2
  <1>6. h[T] = y + h[r]
    <2>1. CASE i \in T
      <3>1. T \in SUBSET T
        OBVIOUS
      <3>2. h[T] = v[i] + h[T \ {i}]
        BY <1>0, <2>1, <3>1, SumRest
      <3> QED
        BY <2>1, <3>2 DEF Part
    <2>2. CASE i \notin T
      <3>1. r = T /\ y = 0
        BY <2>2 DEF Part
      <3>2. h[T] = h[r]
        BY <3>1
      <3> QED
        BY <1>3, <3>1, <3>2
    <2> QED
      BY <2>1, <2>2
  <1> QED
    BY <1>2, <1>3, <1>4, <1>5, <1>6 DEF SumsTell

LockedSlabs(ss) == {i \in 1 .. Len(ss) : ss[i].locked}
RefusedSlabs(ss) == {i \in 1 .. Len(ss) : ~ss[i].locked}
BytesIn(ss, S) == Mem!MapThenSumSet(LAMBDA i : ss[i].size, S)
Sizes(ss, S) == [i \in S |-> ss[i].size]

\* They are a sum as above.
LEMMA BytesAreSum ==
    ASSUME NEW ss \in Seq(SlabSet), NEW S \in SUBSET (1 .. Len(ss))
    PROVE  /\ IsFiniteSet(S) /\ Sizes(ss, S) \in [S -> Nat]
           /\ \E g : IsSum(g, Sizes(ss, S), S) /\ BytesIn(ss, S) = g[S]
  <1> DEFINE w == Sizes(ss, S)
             Sums(g) == g = [s \in SUBSET S |->
                              IF s = {} THEN 0
                              ELSE LET x == CHOOSE x \in s : TRUE IN ss[x].size + g[s \ {x}]]
  <1>1. IsFiniteSet(S)
    <2>1. IsFiniteSet(1 .. Len(ss))
      BY FS_Interval
    <2> QED
      BY <2>1, FS_Subset
  <1>2. w \in [S -> Nat]
    <2>1. \A i \in S : ss[i] \in SlabSet
      OBVIOUS
    <2>2. \A i \in S : ss[i].size \in Nat
      BY <2>1 DEF SlabSet
    <2> QED
      BY <2>2 DEF Sizes
  <1>3. ASSUME NEW g PROVE Sums(g) <=> IsSum(g, w, S)
    <2>1. ASSUME NEW s \in SUBSET S
          PROVE  SumAt(g, w, s) = IF s = {} THEN 0
                                  ELSE LET x == CHOOSE x \in s : TRUE IN ss[x].size + g[s \ {x}]
      <3>1. s # {} => Pick(s) \in S
        BY DEF Pick
      <3>2. s # {} => w[Pick(s)] = ss[Pick(s)].size
        BY <3>1 DEF Sizes
      <3> HIDE DEF w
      <3> QED
        BY <3>2 DEF SumAt, Pick
    <2> HIDE DEF w
    <2> QED
      BY <2>1 DEF IsSum
  <1>4. \E g : Sums(g)
    <2> HIDE DEF Sums, w
    <2> QED
      BY <1>1, <1>3, SumExists
  <1>5. Sums(CHOOSE g : Sums(g))
    <2> HIDE DEF Sums
    <2> QED
      BY <1>4
  <1> DEFINE iter == CHOOSE g : Sums(g)
  <1>6. BytesIn(ss, S) = iter[S]
    BY DEF BytesIn, Mem!MapThenSumSet, Mem!MapThenFoldSet
  <1> HIDE DEF Sums
  <1>7. IsSum(iter, w, S)
    <2> HIDE DEF w
    <2> QED
      BY <1>3, <1>5
  <1> HIDE DEF iter
  <1> QED
    BY <1>1, <1>2, <1>6, <1>7

\* What slab i has of them.
BytesAt(ss, S, i) == IF i \in S THEN ss[i].size ELSE 0

\* Slabs S of one arena are slabs T of the other, but for i.
AlikeBut(ss, S, tt, T, i) ==
    /\ S \in SUBSET (1 .. Len(ss)) /\ T \in SUBSET (1 .. Len(tt))
    /\ S \ {i} = T \ {i} /\ \A j \in S \ {i} : ss[j].size = tt[j].size

\* Where two arenas differ in one slab, the bytes differ by that.
LEMMA BytesDiffer ==
    ASSUME NEW ss \in Seq(SlabSet), NEW tt \in Seq(SlabSet), NEW i \in Nat,
           NEW S, NEW T, AlikeBut(ss, S, tt, T, i)
    PROVE  /\ BytesIn(ss, S) \in Nat /\ BytesIn(tt, T) \in Nat
           /\ BytesAt(ss, S, i) \in Nat /\ BytesAt(tt, T, i) \in Nat
           /\ BytesIn(tt, T) - BytesAt(tt, T, i) = BytesIn(ss, S) - BytesAt(ss, S, i)
  <1> DEFINE w == Sizes(ss, S)
             v == Sizes(tt, T)
  <1>0. /\ S \in SUBSET (1 .. Len(ss)) /\ T \in SUBSET (1 .. Len(tt))
        /\ S \ {i} = T \ {i} /\ \A j \in S \ {i} : ss[j].size = tt[j].size
    BY DEF AlikeBut
  <1>1. IsFiniteSet(S) /\ w \in [S -> Nat] /\ IsFiniteSet(T) /\ v \in [T -> Nat]
    BY <1>0, BytesAreSum
  <1>2. PICK g : IsSum(g, w, S) /\ BytesIn(ss, S) = g[S]
    BY <1>0, BytesAreSum
  <1>3. PICK h : IsSum(h, v, T) /\ BytesIn(tt, T) = h[T]
    BY <1>0, BytesAreSum
  <1>4. \A k \in S \ {i} : w[k] = v[k]
    <2>1. \A k \in S \ {i} : k \in S /\ k \in T /\ ss[k].size = tt[k].size
      BY <1>0
    <2> QED
      BY <2>1 DEF Sizes
  <1>5. /\ i \in S => w[i] = BytesAt(ss, S, i)
        /\ i \notin S => BytesAt(ss, S, i) = 0
        /\ i \in T => v[i] = BytesAt(tt, T, i)
        /\ i \notin T => BytesAt(tt, T, i) = 0
    BY DEF BytesAt, Sizes
  <1>6. BytesAt(ss, S, i) = Part(S, w, i) /\ BytesAt(tt, T, i) = Part(T, v, i)
    BY <1>5 DEF Part
  <1> HIDE DEF w, v
  <1>7. SumOver(S, w, g) /\ SumOver(T, v, h)
    BY <1>1, <1>2, <1>3 DEF SumOver
  <1>8. S \ {i} = T \ {i}
    BY <1>0
  <1>9. SumsTell(BytesAt(ss, S, i), BytesAt(tt, T, i), g[S], h[T])
    BY <1>4, <1>6, <1>7, <1>8, SumsDiffer
  <1> QED
    BY <1>2, <1>3, <1>9 DEF SumsTell

\* Of both kinds of slabs.
LEMMA KindsDiffer ==
    ASSUME NEW ss \in Seq(SlabSet), NEW tt \in Seq(SlabSet), NEW i \in Nat,
           \A j \in Nat : j # i => /\ j \in 1 .. Len(ss) <=> j \in 1 .. Len(tt)
                                   /\ j \in 1 .. Len(ss) =>
                                        ss[j].size = tt[j].size /\ ss[j].locked = tt[j].locked
    PROVE  /\ BytesIn(tt, LockedSlabs(tt)) \in Nat /\ BytesIn(ss, LockedSlabs(ss)) \in Nat
           /\ BytesIn(tt, LockedSlabs(tt)) - BytesAt(tt, LockedSlabs(tt), i)
                 = BytesIn(ss, LockedSlabs(ss)) - BytesAt(ss, LockedSlabs(ss), i)
           /\ BytesIn(tt, RefusedSlabs(tt)) \in Nat /\ BytesIn(ss, RefusedSlabs(ss)) \in Nat
           /\ BytesIn(tt, RefusedSlabs(tt)) - BytesAt(tt, RefusedSlabs(tt), i)
                 = BytesIn(ss, RefusedSlabs(ss)) - BytesAt(ss, RefusedSlabs(ss), i)
  <1>1. LockedSlabs(ss) \in SUBSET (1 .. Len(ss)) /\ LockedSlabs(tt) \in SUBSET (1 .. Len(tt))
    BY DEF LockedSlabs
  <1>2. RefusedSlabs(ss) \in SUBSET (1 .. Len(ss)) /\ RefusedSlabs(tt) \in SUBSET (1 .. Len(tt))
    BY DEF RefusedSlabs
  <1>3. \A j \in 1 .. Len(ss) : j \in Nat
    OBVIOUS
  <1>4. \A j \in 1 .. Len(tt) : j \in Nat
    OBVIOUS
  <1>5. /\ LockedSlabs(ss) \ {i} = LockedSlabs(tt) \ {i}
        /\ \A j \in LockedSlabs(ss) \ {i} : ss[j].size = tt[j].size
    BY <1>3, <1>4 DEF LockedSlabs
  <1>6. /\ RefusedSlabs(ss) \ {i} = RefusedSlabs(tt) \ {i}
        /\ \A j \in RefusedSlabs(ss) \ {i} : ss[j].size = tt[j].size
    BY <1>3, <1>4 DEF RefusedSlabs
  <1>7. /\ BytesIn(tt, LockedSlabs(tt)) \in Nat /\ BytesIn(ss, LockedSlabs(ss)) \in Nat
        /\ BytesIn(tt, LockedSlabs(tt)) - BytesAt(tt, LockedSlabs(tt), i)
              = BytesIn(ss, LockedSlabs(ss)) - BytesAt(ss, LockedSlabs(ss), i)
    <2> PICK S, T : S = LockedSlabs(ss) /\ T = LockedSlabs(tt)
      OBVIOUS
    <2>1. AlikeBut(ss, S, tt, T, i)
      BY <1>1, <1>5 DEF AlikeBut
    <2>2. /\ BytesIn(tt, T) \in Nat /\ BytesIn(ss, S) \in Nat
          /\ BytesIn(tt, T) - BytesAt(tt, T, i) = BytesIn(ss, S) - BytesAt(ss, S, i)
      BY <2>1, BytesDiffer
    <2> QED
      BY <2>2
  <1>8. /\ BytesIn(tt, RefusedSlabs(tt)) \in Nat /\ BytesIn(ss, RefusedSlabs(ss)) \in Nat
        /\ BytesIn(tt, RefusedSlabs(tt)) - BytesAt(tt, RefusedSlabs(tt), i)
              = BytesIn(ss, RefusedSlabs(ss)) - BytesAt(ss, RefusedSlabs(ss), i)
    <2> PICK S, T : S = RefusedSlabs(ss) /\ T = RefusedSlabs(tt)
      OBVIOUS
    <2>1. AlikeBut(ss, S, tt, T, i)
      BY <1>2, <1>6 DEF AlikeBut
    <2>2. /\ BytesIn(tt, T) \in Nat /\ BytesIn(ss, S) \in Nat
          /\ BytesIn(tt, T) - BytesAt(tt, T, i) = BytesIn(ss, S) - BytesAt(ss, S, i)
      BY <2>1, BytesDiffer
    <2> QED
      BY <2>2
  <1> QED
    BY <1>7, <1>8

----------------------------------------------------------------------------
\* The arena as a whole.

\* What the kernel may say to a request for a slab.
KernelAnswers == {"locked", "refused", "none"}

Posted(ss, cs) ==
    /\ cs \in [locked : Int, unlocked : Int, failed : Int]
    /\ cs.locked = BytesIn(ss, LockedSlabs(ss)) /\ cs.unlocked = BytesIn(ss, RefusedSlabs(ss))

\* bg is bf outside slab i and the heap.
Elsewhere(bf, bg, i) ==
    \A c \in AnyBuf, v \in Ways :
        \/ bg[c][v] = bf[c][v] /\ Used(bg, c, v) = Used(bf, c, v)
        \/ /\ bf[c][v].slab < 1 \/ bf[c][v].slab = i
           /\ bg[c][v] = Mem!NoPlace \/ bg[c][v].slab = 0 \/ bg[c][v].slab = i

\* An arena is sound after a change to one slab that leaves that one sound.
LEMMA SoundOne ==
    ASSUME NEW ss, NEW tt \in Seq(SlabSet), NEW bf, NEW bg \in Bufs, NEW i \in 0 .. Len(tt),
           Sound(ss, bf), Len(ss) <= Len(tt), Elsewhere(bf, bg, i),
           \A j \in 1 .. Len(tt) : j # i => j <= Len(ss) /\ tt[j] = ss[j],
           i > 0 => Tiled(tt[i], i, bg) /\ LiveOne(tt[i]),
           \A c \in AnyBuf : bg[c].len <= bg[c].place.cap
    PROVE  Sound(tt, bg)
  <1>1. Len(ss) \in Nat /\ Len(tt) \in Nat /\ bf \in Bufs
    BY DEF Sound
  <1>2. ASSUME NEW c \in AnyBuf, NEW v \in Ways
        PROVE  bg[c][v] = Mem!NoPlace \/ bg[c][v].slab \in 0 .. Len(tt)
    <2>1. CASE bg[c][v] = bf[c][v]
      <3>1. bf[c][v] = Mem!NoPlace \/ bf[c][v].slab \in 0 .. Len(ss)
        BY DEF Sound
      <3> QED
        BY <1>1, <2>1, <3>1
    <2>2. CASE bg[c][v] = Mem!NoPlace \/ bg[c][v].slab = 0 \/ bg[c][v].slab = i
      BY <1>1, <2>2
    <2> QED
      BY <2>1, <2>2 DEF Elsewhere
  <1>3. ASSUME NEW j \in 1 .. Len(tt), j # i PROVE Tiled(tt[j], j, bg) /\ LiveOne(tt[j])
    <2>1. j \in 1 .. Len(ss) /\ tt[j] = ss[j]
      BY <1>1, <1>3
    <2>2. Tiled(ss[j], j, bf) /\ LiveOne(ss[j])
      BY <2>1 DEF Sound
    <2>3. \A c \in AnyBuf, v \in Ways : bf[c][v].slab = j \/ bg[c][v].slab = j =>
             bf[c][v] = bg[c][v] /\ Used(bf, c, v) = Used(bg, c, v)
      <3> SUFFICES ASSUME NEW c \in AnyBuf, NEW v \in Ways, bf[c][v].slab = j \/ bg[c][v].slab = j
                   PROVE  bf[c][v] = bg[c][v] /\ Used(bf, c, v) = Used(bg, c, v)
        OBVIOUS
      <3>1. Mem!NoPlace.slab # j
        BY DEF Mem!NoPlace
      <3>2. ~(bf[c][v].slab < 1 \/ bf[c][v].slab = i) \/
            ~(bg[c][v] = Mem!NoPlace \/ bg[c][v].slab = 0 \/ bg[c][v].slab = i)
        BY <1>3, <3>1
      <3> QED
        BY <3>2 DEF Elsewhere
    <2> QED
      BY <1>1, <2>1, <2>2, <2>3, TiledFrame
  <1>4. \A j \in 1 .. Len(tt) : Tiled(tt[j], j, bg) /\ LiveOne(tt[j])
    <2> SUFFICES ASSUME NEW j \in 1 .. Len(tt) PROVE Tiled(tt[j], j, bg) /\ LiveOne(tt[j])
      OBVIOUS
    <2>1. CASE j = i
      BY <2>1
    <2> QED
      BY <1>3, <2>1
  <1> QED
    BY <1>2, <1>4 DEF Sound

\* bg is bf, but for one buffer.
Changed(bf, bg, b) == bf \in Bufs /\ bg \in Bufs /\ \A c \in AnyBuf : c # b => bg[c] = bf[c]

\* Where one of a buffer's places stays, the other is all that changed.
LEMMA ChangedPlace ==
    ASSUME NEW bf, NEW bg, NEW b \in AnyBuf, Changed(bf, bg, b)
    PROVE  /\ bg[b].old = bf[b].old => OnlyPlace(bf, bg, b, "place")
           /\ bg[b].place = bf[b].place /\ bg[b].len = bf[b].len => OnlyPlace(bf, bg, b, "old")
  <1>1. bf \in Bufs /\ bg \in Bufs /\ "place" \in Ways /\ "old" \in Ways
    BY DEF Changed, Ways
  <1>2. /\ bg[b]["place"] = bg[b].place /\ bg[b]["old"] = bg[b].old
        /\ bf[b]["place"] = bf[b].place /\ bf[b]["old"] = bf[b].old
    BY <1>1, PlaceTypes
  <1>3. \A c \in AnyBuf : c # b => bg[c] = bf[c]
    BY DEF Changed
  <1>4. \A v \in Ways : v = "place" \/ v = "old"
    BY DEF Ways
  <1> QED
    BY <1>2, <1>3, <1>4 DEF OnlyPlace, Used

\* The bytes of a buffer change, and its length with them.
LEMMA FillSound ==
    ASSUME NEW ss, NEW bf, NEW bg \in Bufs, NEW b \in AnyBuf, NEW lo \in Nat, NEW hi \in Nat, NEW what, NEW tt,
           Sound(ss, bf), Changed(bf, bg, b),
           bg[b].place = bf[b].place, bg[b].old = bf[b].old,
           lo <= hi, hi <= bf[b].place.cap,
           \/ what = b /\ bf[b].len = lo /\ bg[b].len = hi
           \/ what = Mem!Zero /\ bf[b].len = hi /\ bg[b].len = lo,
           tt = Mem!Fill(ss, bf[b].place, lo, hi, what)
    PROVE  /\ Sound(tt, bg) /\ Len(tt) = Len(ss) /\ ss \in Seq(SlabSet) /\ tt \in Seq(SlabSet)
           /\ \A i \in 1 .. Len(ss) : tt[i].size = ss[i].size /\ tt[i].locked = ss[i].locked
  <1>1. bf \in Bufs /\ ss \in Seq(SlabSet) /\ Len(ss) \in Nat /\ "place" \in Ways
    BY DEF Sound, Ways
  <1>2. \A c \in AnyBuf : c # b => bg[c] = bf[c]
    BY DEF Changed
  <1>3. \A c \in AnyBuf, v \in Ways : bg[c][v] = bf[c][v]
    <2>1. \A v \in Ways : bg[b][v] = bf[b][v]
      BY <1>1, PlaceTypes DEF Ways
    <2> QED
      BY <1>2, <2>1
  <1>4. \A c \in AnyBuf : bf[c].len <= bf[c].place.cap
    BY DEF Sound
  <1>5. \A c \in AnyBuf : bg[c].len <= bg[c].place.cap
    <2>1. bg[b].len <= bg[b].place.cap
      <3>1. bf[b].place.cap \in Nat
        BY <1>1, PlaceTypes
      <3> QED
        BY <3>1
    <2> QED
      BY <1>2, <1>4, <2>1
  <1>6. bf[b]["place"] = bf[b].place /\ bf[b].place.slab \in Int /\ bf[b].place.off \in Nat
    BY <1>1, PlaceTypes
  <1>7. bf[b].place = Mem!NoPlace \/ bf[b].place.slab \in 0 .. Len(ss)
    BY <1>1, <1>6 DEF Sound
  <1>8. \A c \in AnyBuf, v \in Ways : c # b \/ v # "place" => Used(bg, c, v) = Used(bf, c, v)
    <2>1. \A c \in AnyBuf : bg[c].old = bf[c].old
      BY <1>2
    <2> QED
      BY <1>2, <2>1 DEF Used
  <1>9. CASE bf[b].place.slab < 1
    <2>1. tt = ss
      BY <1>9 DEF Mem!Fill
    <2>2. Elsewhere(bf, bg, 0)
      <3>1. bg[b]["place"] = Mem!NoPlace \/ bg[b]["place"].slab = 0
        BY <1>1, <1>3, <1>6, <1>7, <1>9
      <3> QED
        BY <1>3, <1>6, <1>8, <1>9, <3>1 DEF Elsewhere
    <2>3. \A j \in 1 .. Len(tt) : j <= Len(ss) /\ tt[j] = ss[j]
      BY <1>1, <2>1
    <2>4. 0 \in 0 .. Len(tt) /\ Len(ss) <= Len(tt) /\ ~(0 > 0)
      BY <1>1, <2>1
    <2>5. Sound(tt, bg)
      BY <1>1, <1>5, <2>1, <2>2, <2>3, <2>4, SoundOne
    <2> QED
      BY <1>1, <2>1, <2>5
  <1>10. CASE ~(bf[b].place.slab < 1)
    <2>0. PICK i : i = bf[b].place.slab
      OBVIOUS
    <2>1. i \in 1 .. Len(ss) /\ i > 0
      BY <1>1, <1>6, <1>7, <1>10, <2>0 DEF Mem!NoPlace
    <2>2. Tiled(ss[i], i, bf) /\ LiveOne(ss[i]) /\ ss[i] \in SlabSet /\ DOMAIN ss[i].mem = 0 .. ss[i].size - 1
      BY <2>1 DEF Sound, Tiled
    <2>3. PICK t : t = Repainted(ss[i], bf[b].place.off, lo, hi, what)
      OBVIOUS
    <2>4. tt = [ss EXCEPT ![i] = t]
      BY <1>10, <2>0, <2>1, <2>3 DEF Mem!Fill, Repainted
    <2>5. Tiled(t, i, bg)
      BY <1>1, <1>2, <1>3, <1>4, <2>0, <2>2, <2>3, RepaintTiled
    <2>6. t \in SlabSet /\ t.size = ss[i].size /\ t.locked = ss[i].locked /\ t.dedicated = ss[i].dedicated /\ t.live = ss[i].live
      <3>1. what \in AnyBuf \cup {Mem!Zero}
        OBVIOUS
      <3>2. Repaints(ss[i], Repainted(ss[i], bf[b].place.off, lo, hi, what), bf[b].place.off, lo, hi, what)
        BY <1>6, <2>2, <3>1, RepaintParts
      <3> QED
        BY <2>3, <3>2 DEF Repaints
    <2>7. /\ tt \in Seq(SlabSet) /\ Len(tt) = Len(ss) /\ tt[i] = t
          /\ \A j \in 1 .. Len(ss) : j # i => tt[j] = ss[j]
      BY <1>1, <2>1, <2>4, <2>6
    <2>8. LiveOne(tt[i])
      BY <2>2, <2>6, <2>7 DEF LiveOne
    <2>9. Elsewhere(bf, bg, i)
      BY <1>1, <1>3, <1>6, <1>8, <2>0 DEF Elsewhere
    <2>10. \A j \in 1 .. Len(tt) : j # i => j <= Len(ss) /\ tt[j] = ss[j]
      BY <1>1, <2>7
    <2>11. i \in 0 .. Len(tt) /\ Len(ss) <= Len(tt)
      BY <1>1, <2>1, <2>7
    <2>12. Sound(tt, bg)
      BY <1>5, <2>5, <2>7, <2>8, <2>9, <2>10, <2>11, SoundOne
    <2> QED
      BY <1>1, <2>6, <2>7, <2>12
  <1> QED
    BY <1>6, <1>9, <1>10

\* Where a change leaves a slab as locked as it was, the counters stay true.
LEMMA PostedFrame ==
    ASSUME NEW ss \in Seq(SlabSet), NEW tt \in Seq(SlabSet), NEW cs, Posted(ss, cs), Len(tt) = Len(ss),
           \A i \in 1 .. Len(ss) : tt[i].size = ss[i].size /\ tt[i].locked = ss[i].locked
    PROVE  Posted(tt, cs)
  <1>1. /\ BytesAt(ss, LockedSlabs(ss), 0) = 0 /\ BytesAt(tt, LockedSlabs(tt), 0) = 0
        /\ BytesAt(ss, RefusedSlabs(ss), 0) = 0 /\ BytesAt(tt, RefusedSlabs(tt), 0) = 0
    BY DEF BytesAt, LockedSlabs, RefusedSlabs
  <1>2. \A j \in Nat : j # 0 => /\ j \in 1 .. Len(ss) <=> j \in 1 .. Len(tt)
                                /\ j \in 1 .. Len(ss) => ss[j].size = tt[j].size /\ ss[j].locked = tt[j].locked
    OBVIOUS
  <1>3. 0 \in Nat
    OBVIOUS
  <1>4. /\ BytesIn(tt, LockedSlabs(tt)) \in Nat /\ BytesIn(ss, LockedSlabs(ss)) \in Nat
        /\ BytesIn(tt, LockedSlabs(tt)) - BytesAt(tt, LockedSlabs(tt), 0)
              = BytesIn(ss, LockedSlabs(ss)) - BytesAt(ss, LockedSlabs(ss), 0)
        /\ BytesIn(tt, RefusedSlabs(tt)) \in Nat /\ BytesIn(ss, RefusedSlabs(ss)) \in Nat
        /\ BytesIn(tt, RefusedSlabs(tt)) - BytesAt(tt, RefusedSlabs(tt), 0)
              = BytesIn(ss, RefusedSlabs(ss)) - BytesAt(ss, RefusedSlabs(ss), 0)
    BY <1>2, <1>3, KindsDiffer
  <1>5. BytesIn(tt, LockedSlabs(tt)) = BytesIn(ss, LockedSlabs(ss))
    BY <1>1, <1>4
  <1>6. BytesIn(tt, RefusedSlabs(tt)) = BytesIn(ss, RefusedSlabs(ss))
    BY <1>1, <1>4
  <1> QED
    BY <1>5, <1>6 DEF Posted

\* A slab goes back into its place, or away.
LEMMA FreeCases ==
    ASSUME NEW i \in 1 .. Len(slabs), NEW place, place.slab = i, slabs \in Seq(SlabSet),
           NEW s, s = Mem!SlabRelease(slabs[i], place.off, place.cap)
    PROVE  LET a == Mem!ArenaFree(place) IN
           IF s.dedicated /\ s.live = 0
           THEN /\ a.slabs = [slabs EXCEPT ![i] = Mem!Tomb]
                /\ a.counters = IF s.locked THEN [counters EXCEPT !.locked = @ - s.size]
                                            ELSE [counters EXCEPT !.unlocked = @ - s.size]
           ELSE a.slabs = [slabs EXCEPT ![i] = s] /\ a.counters = counters
  <1>1. ~(place.slab < 1)
    OBVIOUS
  <1> QED
    BY <1>1 DEF Mem!ArenaFree

\* Where an oversize slab was, nothing is.
LEMMA TombTiled ==
    ASSUME NEW i, NEW bf, \A c \in AnyBuf, v \in Ways : bf[c][v].slab # i
    PROVE  Tiled(Mem!Tomb, i, bf) /\ LiveOne(Mem!Tomb) /\ Mem!Tomb \in SlabSet
           /\ Mem!Tomb.size = 0 /\ ~Mem!Tomb.locked
  <1> PICK s : s = Mem!Tomb
    OBVIOUS
  <1>1. s = [size |-> 0, locked |-> FALSE, dedicated |-> TRUE, free |-> {}, live |-> 0, mem |-> <<>>]
    BY DEF Mem!Tomb
  <1>2. <<>> \in Contents
    <2>1. <<>> \in [0 .. 0 - 1 -> AnyBuf \cup {Mem!Zero}]
      OBVIOUS
    <2> QED
      BY <2>1 DEF Contents
  <1>3. s \in SlabSet /\ DOMAIN s.mem = 0 .. s.size - 1
    BY <1>1, <1>2 DEF SlabSet
  <1>4. FreeApart(s) /\ LiveOne(s) /\ Covered(s, i, bf) /\ Wiped(s, i, bf)
    BY <1>1 DEF FreeApart, LiveOne, Covered, Wiped
  <1>5. PlacesApart(s, i, bf) /\ Written(s, i, bf)
    <2>1. \A c \in AnyBuf : bf[c]["place"].slab # i
      BY DEF Ways
    <2> QED
      BY <2>1 DEF PlacesApart, Written
  <1> QED
    BY <1>1, <1>3, <1>4, <1>5 DEF Tiled

\* What is left of an arena when place w of buffer b is given back.
Freed(bf, bg, b, w, a) ==
    /\ Sound(a.slabs, bg) /\ Posted(a.slabs, a.counters) /\ Len(a.slabs) = Len(slabs)
    /\ \A c \in AnyBuf, v \in Ways : ~(c = b /\ v = w) /\ bf[c][v].slab > 0 =>
         a.slabs[bf[c][v].slab].locked = slabs[bf[c][v].slab].locked

\* arena_free leaves an arena sound, and the counters as they should be.
LEMMA FreeSound ==
    ASSUME NEW bf, NEW bg, NEW b \in AnyBuf, NEW w \in Ways, Sound(slabs, bf), Posted(slabs, counters),
           Changed(bf, bg, b), OnlyPlace(bf, bg, b, w), bg[b][w] = Mem!NoPlace,
           bg[b].len <= bg[b].place.cap
    PROVE  Freed(bf, bg, b, w, Mem!ArenaFree(bf[b][w]))
  <1> PICK a : a = Mem!ArenaFree(bf[b][w])
    OBVIOUS
  <1>1. bf \in Bufs /\ bg \in Bufs /\ slabs \in Seq(SlabSet) /\ Len(slabs) \in Nat
    BY DEF Sound, Changed
  <1>2. \A c \in AnyBuf : bf[c].len <= bf[c].place.cap
    BY DEF Sound
  <1>3. \A c \in AnyBuf : bg[c].len <= bg[c].place.cap
    BY <1>2 DEF Changed
  <1>4. /\ bf[b][w].slab \in Int /\ bf[b][w].off \in Nat /\ bf[b][w].cap \in Nat
        /\ bf[b][w] = Mem!NoPlace \/ bf[b][w].slab \in 0 .. Len(slabs)
    BY <1>1, PlaceTypes DEF Sound
  <1>5. \A i : bf[b][w].slab < 1 \/ bf[b][w].slab = i => Elsewhere(bf, bg, i)
    <2>1. \A c \in AnyBuf, v \in Ways : \/ c = b /\ v = w
                                        \/ bg[c][v] = bf[c][v] /\ Used(bg, c, v) = Used(bf, c, v)
      BY DEF OnlyPlace
    <2> QED
      BY <2>1 DEF Elsewhere
  <1>6. CASE bf[b][w].slab < 1
    <2>1. a.slabs = slabs /\ a.counters = counters
      BY <1>6 DEF Mem!ArenaFree
    <2>2. \A j \in 1 .. Len(slabs) : j <= Len(slabs) /\ slabs[j] = slabs[j]
      BY <1>1
    <2>3. 0 \in 0 .. Len(slabs) /\ Len(slabs) <= Len(slabs) /\ ~(0 > 0) /\ Elsewhere(bf, bg, 0)
      BY <1>1, <1>5, <1>6
    <2>4. Sound(slabs, bg)
      BY <1>1, <1>3, <2>2, <2>3, SoundOne
    <2> QED
      BY <2>1, <2>4 DEF Freed
  <1>7. CASE ~(bf[b][w].slab < 1)
    <2>0. PICK i, off, cap : i = bf[b][w].slab /\ off = bf[b][w].off /\ cap = bf[b][w].cap
      OBVIOUS
    <2>1. i \in 1 .. Len(slabs) /\ i > 0
      BY <1>1, <1>4, <1>7, <2>0 DEF Mem!NoPlace
    <2>2. Tiled(slabs[i], i, bf) /\ LiveOne(slabs[i]) /\ slabs[i] \in SlabSet
          /\ DOMAIN slabs[i].mem = 0 .. slabs[i].size - 1 /\ FreeApart(slabs[i])
      BY <2>1, SMTT(30) DEF Sound, Tiled
    <2>3. off \in Nat /\ cap \in Nat /\ cap > 0 /\ off + cap <= slabs[i].size
      BY <1>4, <2>0, <2>2 DEF Tiled, PlacesApart
    <2>4. PICK s : s = Mem!SlabRelease(slabs[i], off, cap)
      OBVIOUS
    <2>5. /\ s \in SlabSet /\ s.size = slabs[i].size /\ s.locked = slabs[i].locked
          /\ s.dedicated = slabs[i].dedicated
          /\ s.live = IF slabs[i].live = 0 THEN 0 ELSE slabs[i].live - 1
      BY <2>2, <2>3, <2>4, ReleaseParts DEF Released
    <2>6. bg[b][w].slab # i
      BY <2>1 DEF Mem!NoPlace
    <2>7. Tiled(s, i, bg)
      BY <1>1, <1>2, <2>0, <2>2, <2>4, <2>6, ReleaseTiled
    <2>8. s.size \in Nat /\ s.size > 0 /\ s.locked \in BOOLEAN /\ s.dedicated \in BOOLEAN
      BY <2>3, <2>5 DEF SlabSet
    <2>9. Elsewhere(bf, bg, i)
      BY <1>5, <2>0
    <2>10. CASE s.dedicated /\ s.live = 0
      <3>1. /\ a.slabs = [slabs EXCEPT ![i] = Mem!Tomb]
            /\ a.counters = IF s.locked THEN [counters EXCEPT !.locked = @ - s.size]
                                        ELSE [counters EXCEPT !.unlocked = @ - s.size]
        <4> PICK p : p = bf[b][w]
          OBVIOUS
        <4>1. ~(p.slab < 1) /\ s = Mem!SlabRelease(slabs[p.slab], p.off, p.cap) /\ p.slab = i
          BY <1>7, <2>0, <2>4
        <4>2. a = Mem!ArenaFree(p)
          BY SMTT(30)
        <4> QED
          BY <2>10, <4>1, <4>2 DEF Mem!ArenaFree
      <3>2. \A c \in AnyBuf, v \in Ways : bf[c][v].slab = i => c = b /\ v = w
        BY <2>0, <2>2, <2>5, <2>10 DEF Tiled, PlacesApart
      <3>3. \A c \in AnyBuf, v \in Ways : bg[c][v].slab # i
        BY <2>6, <3>2 DEF OnlyPlace
      <3>4. Tiled(Mem!Tomb, i, bg) /\ LiveOne(Mem!Tomb) /\ Mem!Tomb \in SlabSet
            /\ Mem!Tomb.size = 0 /\ ~Mem!Tomb.locked
        BY <3>3, TombTiled
      <3>5. /\ a.slabs \in Seq(SlabSet) /\ Len(a.slabs) = Len(slabs) /\ a.slabs[i] = Mem!Tomb
            /\ \A j \in 1 .. Len(slabs) : j # i => a.slabs[j] = slabs[j]
        BY <1>1, <2>1, <3>1, <3>4
      <3>6. \A j \in 1 .. Len(a.slabs) : j # i => j <= Len(slabs) /\ a.slabs[j] = slabs[j]
        BY <1>1, <3>5
      <3>7. i \in 0 .. Len(a.slabs) /\ Len(slabs) <= Len(a.slabs)
        BY <1>1, <2>1, <3>5
      <3>8. Sound(a.slabs, bg)
        BY <1>1, <1>3, <2>9, <3>4, <3>5, <3>6, <3>7, SoundOne
      <3>9. Posted(a.slabs, a.counters)
        <4>1. /\ BytesAt(slabs, LockedSlabs(slabs), i) = (IF s.locked THEN s.size ELSE 0)
              /\ BytesAt(a.slabs, LockedSlabs(a.slabs), i) = 0
          BY <2>1, <2>5, <3>4, <3>5 DEF BytesAt, LockedSlabs
        <4>9. /\ BytesAt(slabs, RefusedSlabs(slabs), i) = (IF s.locked THEN 0 ELSE s.size)
              /\ BytesAt(a.slabs, RefusedSlabs(a.slabs), i) = 0
          BY <2>1, <2>5, <3>4, <3>5 DEF BytesAt, RefusedSlabs
        <4>2. \A j \in Nat : j # i => /\ j \in 1 .. Len(slabs) <=> j \in 1 .. Len(a.slabs)
                                      /\ j \in 1 .. Len(slabs) =>
                                           /\ slabs[j].size = a.slabs[j].size
                                           /\ slabs[j].locked = a.slabs[j].locked
          BY <3>5
        <4>3. /\ BytesIn(a.slabs, LockedSlabs(a.slabs)) \in Nat /\ BytesIn(slabs, LockedSlabs(slabs)) \in Nat
              /\ BytesIn(a.slabs, LockedSlabs(a.slabs)) - BytesAt(a.slabs, LockedSlabs(a.slabs), i)
                    = BytesIn(slabs, LockedSlabs(slabs)) - BytesAt(slabs, LockedSlabs(slabs), i)
              /\ BytesIn(a.slabs, RefusedSlabs(a.slabs)) \in Nat /\ BytesIn(slabs, RefusedSlabs(slabs)) \in Nat
              /\ BytesIn(a.slabs, RefusedSlabs(a.slabs)) - BytesAt(a.slabs, RefusedSlabs(a.slabs), i)
                    = BytesIn(slabs, RefusedSlabs(slabs)) - BytesAt(slabs, RefusedSlabs(slabs), i)
          <5>1. i \in Nat
            BY <2>1
          <5> QED
            BY <1>1, <3>5, <4>2, <5>1, KindsDiffer
        <4>4. /\ counters \in [locked : Int, unlocked : Int, failed : Int]
              /\ counters.locked = BytesIn(slabs, LockedSlabs(slabs))
              /\ counters.unlocked = BytesIn(slabs, RefusedSlabs(slabs))
          BY DEF Posted
        <4>5. a.counters \in [locked : Int, unlocked : Int, failed : Int]
          BY <2>8, <3>1, <4>4
        <4>6. /\ a.counters.locked = counters.locked - (IF s.locked THEN s.size ELSE 0)
              /\ a.counters.unlocked = counters.unlocked - (IF s.locked THEN 0 ELSE s.size)
          BY <2>8, <3>1, <4>4
        <4>7. a.counters.locked = BytesIn(a.slabs, LockedSlabs(a.slabs))
          BY <2>8, <4>1, <4>3, <4>4, <4>6
        <4>8. a.counters.unlocked = BytesIn(a.slabs, RefusedSlabs(a.slabs))
          BY <2>8, <4>3, <4>4, <4>6, <4>9
        <4> QED
          BY <4>5, <4>7, <4>8 DEF Posted
      <3>10. ASSUME NEW c \in AnyBuf, NEW v \in Ways, ~(c = b /\ v = w), bf[c][v].slab > 0
             PROVE  a.slabs[bf[c][v].slab].locked = slabs[bf[c][v].slab].locked
        <4>1. bf[c][v].slab # i
          BY <3>2, <3>10
        <4>2. bf[c][v] = Mem!NoPlace \/ bf[c][v].slab \in 0 .. Len(slabs)
          BY DEF Sound
        <4>3. bf[c][v].slab \in 1 .. Len(slabs)
          BY <1>1, <3>10, <4>2 DEF Mem!NoPlace
        <4> QED
          BY <3>5, <4>1, <4>3
      <3> QED
        BY <3>5, <3>8, <3>9, <3>10 DEF Freed
    <2>11. CASE ~(s.dedicated /\ s.live = 0)
      <3>1. a.slabs = [slabs EXCEPT ![i] = s] /\ a.counters = counters
        BY <1>1, <2>0, <2>1, <2>4, <2>11, FreeCases, ZenonT(60)
      <3>2. LiveOne(s)
        <4>1. ~s.dedicated
          BY <2>2, <2>5, <2>8, <2>11 DEF LiveOne
        <4> QED
          BY <4>1 DEF LiveOne
      <3>3. /\ a.slabs \in Seq(SlabSet) /\ Len(a.slabs) = Len(slabs) /\ a.slabs[i] = s
            /\ \A j \in 1 .. Len(slabs) : j # i => a.slabs[j] = slabs[j]
        BY <1>1, <2>1, <2>5, <3>1
      <3>4. \A j \in 1 .. Len(a.slabs) : j # i => j <= Len(slabs) /\ a.slabs[j] = slabs[j]
        BY <1>1, <3>3
      <3>5. i \in 0 .. Len(a.slabs) /\ Len(slabs) <= Len(a.slabs)
        BY <1>1, <2>1, <3>3
      <3>6. Sound(a.slabs, bg)
        BY <1>1, <1>3, <2>7, <2>9, <3>2, <3>3, <3>4, <3>5, SoundOne
      <3>7. \A j \in 1 .. Len(slabs) : a.slabs[j].size = slabs[j].size /\ a.slabs[j].locked = slabs[j].locked
        BY <2>5, <3>3
      <3>8. Posted(a.slabs, a.counters)
        BY <1>1, <3>1, <3>3, <3>7, PostedFrame
      <3>9. ASSUME NEW c \in AnyBuf, NEW v \in Ways, bf[c][v].slab > 0
             PROVE  a.slabs[bf[c][v].slab].locked = slabs[bf[c][v].slab].locked
        <4>1. bf[c][v] = Mem!NoPlace \/ bf[c][v].slab \in 0 .. Len(slabs)
          BY DEF Sound
        <4>2. bf[c][v].slab \in 1 .. Len(slabs)
          BY <1>1, <3>9, <4>1 DEF Mem!NoPlace
        <4> QED
          BY <3>7, <4>2
      <3> QED
        BY <3>3, <3>6, <3>8, <3>9 DEF Freed
    <2> QED
      BY <2>10, <2>11
  <1> QED
    BY <1>4, <1>6, <1>7

\* What an arena is when buffer b has been given cap granules.
Moved(bf, b, p) == [bf EXCEPT ![b].place = p]
Allotted(bf, b, cap, a) ==
    /\ a.place \in PlaceSet /\ a.place.cap = cap /\ a.place.slab \in 0 .. Len(a.slabs)
    /\ Sound(a.slabs, Moved(bf, b, a.place)) /\ Posted(a.slabs, a.counters)
    /\ \A c \in AnyBuf, v \in Ways : bf[c][v].slab > 0 =>
         a.slabs[bf[c][v].slab].locked = slabs[bf[c][v].slab].locked

\* A buffer with another place.
MovedTo(bf, bg, b, p) ==
    /\ Changed(bf, bg, b) /\ bg[b].place = p /\ bg[b].len = bf[b].len /\ bg[b].old = bf[b].old
    /\ OnlyPlace(bf, bg, b, "place")

\* A buffer given another place is otherwise the same.
LEMMA WithPlace ==
    ASSUME NEW bf \in Bufs, NEW b \in AnyBuf, NEW p \in PlaceSet
    PROVE  MovedTo(bf, Moved(bf, b, p), b, p)
  <1> PICK bg : bg = Moved(bf, b, p)
    OBVIOUS
  <1>1. bf[b] \in BufSet
    BY PlaceTypes DEF Ways
  <1>2. bg[b] = [bf[b] EXCEPT !.place = p] /\ \A c \in AnyBuf : c # b => bg[c] = bf[c]
    BY DEF Bufs, Moved
  <1>3. [bf[b] EXCEPT !.place = p] \in BufSet
    BY <1>1 DEF BufSet
  <1>4. bg[b].place = p /\ bg[b].len = bf[b].len /\ bg[b].old = bf[b].old
    BY <1>1, <1>2 DEF BufSet
  <1>5. bg \in Bufs
    BY <1>3 DEF Bufs, Moved
  <1>6. Changed(bf, bg, b)
    BY <1>2, <1>5 DEF Changed
  <1> QED
    BY <1>4, <1>6, ChangedPlace DEF MovedTo

\* Numbers that answer a question have a first.
LEMMA MinOf ==
    ASSUME NEW T, T # {}, NEW n \in Nat, T \subseteq 1 .. n
    PROVE  Mem!Min(T) \in T
  <1>1. T \in SUBSET Nat
    OBVIOUS
  <1> QED
    BY <1>1, LeastIs

\* An arena with slab i put in its place, or added.
OneSlab(ss, tt, i, t) ==
    /\ ss \in Seq(SlabSet) /\ tt \in Seq(SlabSet) /\ i \in 1 .. Len(tt) /\ tt[i] = t
    /\ Len(ss) <= Len(tt) /\ \A j \in 1 .. Len(tt) : j # i => j <= Len(ss) /\ tt[j] = ss[j]

\* A slab put in the place of another.
LEMMA PutSlab ==
    ASSUME NEW ss \in Seq(SlabSet), NEW t \in SlabSet, NEW i \in 1 .. Len(ss)
    PROVE  OneSlab(ss, [ss EXCEPT ![i] = t], i, t) /\ Len([ss EXCEPT ![i] = t]) = Len(ss)
  BY DEF OneSlab

\* A slab added behind the others.
LEMMA AddSlab ==
    ASSUME NEW ss \in Seq(SlabSet), NEW t \in SlabSet
    PROVE  OneSlab(ss, Append(ss, t), Len(ss) + 1, t)
  <1> PICK tt : tt = Append(ss, t)
    OBVIOUS
  <1>1. tt \in Seq(SlabSet) /\ Len(tt) = Len(ss) + 1 /\ tt[Len(ss) + 1] = t /\ Len(ss) \in Nat
        /\ \A j \in 1 .. Len(ss) : tt[j] = ss[j]
    OBVIOUS
  <1> QED
    BY <1>1 DEF OneSlab

\* An arena is sound with one sound slab put in or added.
LEMMA SoundSlab ==
    ASSUME NEW ss, NEW tt, NEW i, NEW t, NEW bf, NEW bg, OneSlab(ss, tt, i, t), Sound(ss, bf),
           bg \in Bufs, Elsewhere(bf, bg, i), Tiled(t, i, bg), LiveOne(t),
           \A c \in AnyBuf : bg[c].len <= bg[c].place.cap
    PROVE  Sound(tt, bg)
  <1>1. /\ tt \in Seq(SlabSet) /\ i \in 0 .. Len(tt) /\ Len(ss) <= Len(tt) /\ tt[i] = t
        /\ \A j \in 1 .. Len(tt) : j # i => j <= Len(ss) /\ tt[j] = ss[j]
    BY DEF OneSlab
  <1> QED
    BY <1>1, SoundOne

\* Slab s, at index i, has room for cap granules, and they are given to buffer b.
Room(s, i, bf, cap) ==
    /\ Tiled(s, i, bf) /\ Mem!Fits(s, cap) # {}
    /\ s.dedicated => s.live = 0 /\ \A c \in AnyBuf, v \in Ways : bf[c][v].slab # i
PlaceIn(s, i, cap) == [slab |-> i, off |-> Mem!FirstFit(s, cap)[1], cap |-> cap]

\* A first fit given to a buffer leaves the arena sound.
LEMMA GivenSound ==
    ASSUME NEW ss, NEW bf, NEW b \in AnyBuf, NEW cap \in Nat, cap > 0, NEW i, NEW tt, NEW s,
           Sound(ss, bf), bf[b].place = Mem!NoPlace, Room(s, i, bf, cap),
           OneSlab(ss, tt, i, Mem!SlabAlloc(s, cap))
    PROVE  PlaceIn(s, i, cap) \in PlaceSet /\ Sound(tt, Moved(bf, b, PlaceIn(s, i, cap)))
  <1> PICK p : p = PlaceIn(s, i, cap)
    OBVIOUS
  <1> PICK bg : bg = Moved(bf, b, p)
    OBVIOUS
  <1> PICK t : t = Mem!SlabAlloc(s, cap)
    OBVIOUS
  <1>1. bf \in Bufs
    BY DEF Sound
  <1>2. s \in SlabSet /\ Tiled(s, i, bf) /\ Mem!Fits(s, cap) # {}
    BY DEF Tiled, Room
  <1>3. Mem!FirstFit(s, cap)[1] \in Nat /\ i \in Nat /\ i > 0
    BY <1>2, FirstFits DEF OneSlab
  <1>4. p \in PlaceSet /\ p.slab = i /\ p.cap = cap
    BY <1>3 DEF PlaceSet, PlaceIn
  <1>5. MovedTo(bf, bg, b, p)
    BY <1>1, <1>4, WithPlace
  <1>6. bf[b].len = 0 /\ bf[b].place.slab = -1
    <2>1. bf[b].len <= 0 /\ bf[b].place.slab = -1
      BY DEF Sound, Mem!NoPlace
    <2>2. bf[b].len \in Nat
      BY <1>1, PlaceTypes DEF Ways
    <2> QED
      BY <2>1, <2>2
  <1>7. t.dedicated = s.dedicated /\ t.live = s.live + 1
    BY <1>2, AllocParts
  <1>8. Tiled(t, i, bg)
    <2>1. /\ bg \in Bufs /\ cap \in Nat \ {0} /\ bf[b].place.slab # i /\ bg[b].len = 0
          /\ OnlyPlace(bf, bg, b, "place")
      BY <1>3, <1>5, <1>6 DEF Changed, MovedTo
    <2>2. bg[b].place = [slab |-> i, off |-> Mem!FirstFit(s, cap)[1], cap |-> cap]
      BY <1>5 DEF MovedTo, PlaceIn
    <2>3. s.dedicated => \A c \in AnyBuf, v \in Ways : bf[c][v].slab # i
      BY DEF Room
    <2> QED
      BY <1>1, <1>2, <2>1, <2>2, <2>3, AllocTiled
  <1>9. LiveOne(t)
    BY <1>7 DEF LiveOne, Room
  <1>10. Elsewhere(bf, bg, i)
    <2>1. bf[b]["place"] = bf[b].place /\ bg[b]["place"] = bg[b].place
      <3>1. bg \in Bufs /\ "place" \in Ways
        BY <1>5 DEF Changed, MovedTo, Ways
      <3> QED
        BY <1>1, <3>1, PlaceTypes
    <2>2. bf[b]["place"].slab < 1 /\ bg[b]["place"].slab = i
      BY <1>4, <1>5, <1>6, <2>1 DEF MovedTo
    <2>3. \A c \in AnyBuf, v \in Ways : \/ c = b /\ v = "place"
                                        \/ bg[c][v] = bf[c][v] /\ Used(bg, c, v) = Used(bf, c, v)
      BY <1>5 DEF OnlyPlace, MovedTo
    <2> QED
      BY <2>2, <2>3 DEF Elsewhere
  <1>11. \A c \in AnyBuf : bg[c].len <= bg[c].place.cap
    <2>1. bg[b].len <= bg[b].place.cap
      BY <1>4, <1>5, <1>6 DEF MovedTo
    <2> QED
      BY <1>5, <2>1 DEF Sound, Changed, MovedTo
  <1>12. bg \in Bufs
    BY <1>5 DEF Changed, MovedTo
  <1>13. Sound(tt, bg)
    BY <1>8, <1>9, <1>10, <1>11, <1>12, SoundSlab
  <1> QED
    BY <1>4, <1>13

\* The sizes of the arena are numbers of granules, and the key's buffer is its own.
LEMMA AllocSound ==
    ASSUME NEW bf, NEW b \in AnyBuf, NEW cap \in Nat, cap > 0, NEW kernel \in KernelAnswers,
           Sound(slabs, bf), Posted(slabs, counters), bf[b].place = Mem!NoPlace,
           SlabBytes \in Nat \ {0}, Page \in Nat \ {0}
    PROVE  Allotted(bf, b, cap, Mem!ArenaAlloc(cap, kernel))
  <1> PICK a : a = Mem!ArenaAlloc(cap, kernel)
    OBVIOUS
  <1>1. bf \in Bufs /\ slabs \in Seq(SlabSet) /\ Len(slabs) \in Nat
    BY DEF Sound
  <1>2. /\ counters \in [locked : Int, unlocked : Int, failed : Int]
        /\ counters.locked = BytesIn(slabs, LockedSlabs(slabs))
        /\ counters.unlocked = BytesIn(slabs, RefusedSlabs(slabs))
    BY DEF Posted
  <1>3. ASSUME NEW c \in AnyBuf, NEW v \in Ways, bf[c][v].slab > 0 PROVE bf[c][v].slab \in 1 .. Len(slabs)
    <2>1. bf[c][v] = Mem!NoPlace \/ bf[c][v].slab \in 0 .. Len(slabs)
      BY DEF Sound
    <2> QED
      BY <1>1, <1>3, <2>1 DEF Mem!NoPlace
  <1>4. CASE cap <= SlabBytes /\ Mem!Holding(cap) # {}
    <2> PICK i : i = Mem!Min(Mem!Holding(cap))
      OBVIOUS
    <2>1. i \in Mem!Holding(cap)
      BY <1>1, <1>4, MinOf DEF Mem!Holding
    <2>2. i \in 1 .. Len(slabs) /\ ~slabs[i].dedicated /\ Mem!Fits(slabs[i], cap) # {}
      BY <2>1 DEF Mem!Holding
    <2> PICK s : s = slabs[i]
      OBVIOUS
    <2> PICK t, p : t = Mem!SlabAlloc(s, cap) /\ p = PlaceIn(s, i, cap)
      OBVIOUS
    <2>3. a = [slabs |-> [slabs EXCEPT ![i] = t], counters |-> counters, place |-> p]
      BY <1>4 DEF Mem!ArenaAlloc, PlaceIn
    <2>4. a.slabs = [slabs EXCEPT ![i] = t] /\ a.counters = counters /\ a.place = p
      BY <2>3
    <2>5. Room(s, i, bf, cap) /\ s \in SlabSet
      BY <2>2 DEF Sound, Room, Tiled
    <2>6. t \in SlabSet /\ t.size = s.size /\ t.locked = s.locked
      BY <2>2, <2>5, AllocParts
    <2>7. OneSlab(slabs, a.slabs, i, t) /\ Len(a.slabs) = Len(slabs)
      BY <1>1, <2>2, <2>4, <2>6, PutSlab
    <2>8. p \in PlaceSet /\ Sound(a.slabs, Moved(bf, b, p))
      BY <2>5, <2>7, GivenSound
    <2>9. \A j \in 1 .. Len(slabs) : a.slabs[j].size = slabs[j].size /\ a.slabs[j].locked = slabs[j].locked
      BY <2>6, <2>7 DEF OneSlab
    <2>10. Posted(a.slabs, a.counters)
      BY <1>1, <2>4, <2>7, <2>9, PostedFrame DEF OneSlab
    <2>11. p.cap = cap /\ p.slab = i
      BY DEF PlaceIn
    <2>12. p.slab \in 0 .. Len(a.slabs)
      BY <2>7, <2>11 DEF OneSlab
    <2> QED
      BY <1>3, <2>4, <2>8, <2>9, <2>10, <2>11, <2>12 DEF Allotted
  <1>5. CASE ~(cap <= SlabBytes /\ Mem!Holding(cap) # {}) /\ kernel = "none"
    <2> PICK p : p = [slab |-> 0, off |-> 0, cap |-> cap]
      OBVIOUS
    <2> PICK bg : bg = Moved(bf, b, p)
      OBVIOUS
    <2>1. a.slabs = slabs /\ a.counters = Mem!Count("none", 0) /\ a.place = p
      BY <1>5 DEF Mem!ArenaAlloc
    <2>2. p \in PlaceSet /\ p.slab = 0 /\ p.cap = cap
      BY DEF PlaceSet
    <2>0. MovedTo(bf, bg, b, p)
      BY <1>1, <2>2, WithPlace
    <2>3. /\ Changed(bf, bg, b) /\ bg[b].place = p /\ bg[b].len = bf[b].len /\ OnlyPlace(bf, bg, b, "place")
      BY <2>0 DEF MovedTo
    <2>4. Elsewhere(bf, bg, 0)
      <3>1. bg \in Bufs /\ "place" \in Ways
        BY <2>3 DEF Changed, Ways
      <3>2. bf[b]["place"] = bf[b].place /\ bg[b]["place"] = bg[b].place
        BY <1>1, <3>1, PlaceTypes
      <3>3. bf[b]["place"].slab < 1 /\ bg[b]["place"].slab = 0
        BY <2>2, <2>3, <3>2 DEF Mem!NoPlace
      <3>4. \A c \in AnyBuf, v \in Ways : \/ c = b /\ v = "place"
                                          \/ bg[c][v] = bf[c][v] /\ Used(bg, c, v) = Used(bf, c, v)
        BY <2>3 DEF OnlyPlace
      <3> QED
        BY <3>3, <3>4 DEF Elsewhere
    <2>5. \A c \in AnyBuf : bg[c].len <= bg[c].place.cap
      <3>1. bf[b].len <= 0
        BY DEF Sound, Mem!NoPlace
      <3>2. bf[b].len \in Nat
        BY <1>1, PlaceTypes DEF Ways
      <3>3. bg[b].len <= bg[b].place.cap
        BY <2>2, <2>3, <3>1, <3>2
      <3> QED
        BY <2>3, <3>3 DEF Sound, Changed
    <2>6. \A j \in 1 .. Len(slabs) : j <= Len(slabs) /\ slabs[j] = slabs[j]
      BY <1>1
    <2>7. 0 \in 0 .. Len(slabs) /\ Len(slabs) <= Len(slabs) /\ ~(0 > 0) /\ bg \in Bufs
      BY <1>1, <2>3 DEF Changed
    <2>8. Sound(slabs, bg)
      BY <1>1, <2>4, <2>5, <2>6, <2>7, SoundOne
    <2>9. Mem!Count("none", 0) = [locked |-> counters.locked, unlocked |-> counters.unlocked,
                                  failed |-> counters.failed + 1]
      BY <1>2 DEF Mem!Count
    <2>10. Posted(slabs, Mem!Count("none", 0))
      BY <1>2, <2>9 DEF Posted
    <2> QED
      BY <1>1, <2>1, <2>2, <2>8, <2>10 DEF Allotted
  <1>6. CASE ~(cap <= SlabBytes /\ Mem!Holding(cap) # {}) /\ kernel # "none"
    <2> PICK want : want = IF cap <= SlabBytes THEN SlabBytes ELSE cap
      OBVIOUS
    <2> PICK dedicated, locked : dedicated = (cap > SlabBytes) /\ locked = (kernel = "locked")
      OBVIOUS
    <2> PICK s, t : s = Mem!SlabMap(want, dedicated, locked) /\ t = Mem!SlabAlloc(s, cap)
      OBVIOUS
    <2> PICK reuse : reuse = (cap > SlabBytes /\ Mem!Vacant # {})
      OBVIOUS
    <2> PICK i : i = IF reuse THEN Mem!Min(Mem!Vacant) ELSE Len(slabs) + 1
      OBVIOUS
    <2> PICK p : p = [slab |-> i, off |-> 0, cap |-> cap]
      OBVIOUS
    <2>1. /\ a.slabs = (IF reuse THEN [slabs EXCEPT ![i] = t] ELSE Append(slabs, t))
          /\ a.counters = Mem!Count(kernel, t.size) /\ a.place = p
      BY <1>6 DEF Mem!ArenaAlloc
    <2>2. want \in Nat /\ want > 0 /\ cap <= want
      OBVIOUS
    <2>3. reuse => i \in 1 .. Len(slabs) /\ slabs[i].size = 0
      <3> SUFFICES ASSUME reuse PROVE i \in 1 .. Len(slabs) /\ slabs[i].size = 0
        OBVIOUS
      <3>1. i \in Mem!Vacant
        BY <1>1, MinOf DEF Mem!Vacant
      <3> QED
        BY <3>1 DEF Mem!Vacant
    <2>4. i \in Nat /\ i > 0 /\ i <= Len(slabs) + 1 /\ (reuse <=> i <= Len(slabs))
      BY <1>1, <2>3
    <2>6. ASSUME NEW c \in AnyBuf, NEW v \in Ways PROVE bf[c][v].slab # i
      <3> SUFFICES ASSUME bf[c][v].slab = i PROVE FALSE
        OBVIOUS
      <3>1. i \in 1 .. Len(slabs)
        BY <1>3, <2>4
      <3>2. slabs[i].size = 0 /\ Tiled(slabs[i], i, bf)
        BY <1>1, <2>3, <2>4, <3>1 DEF Sound
      <3>3. bf[c][v].cap > 0 /\ bf[c][v].off + bf[c][v].cap <= 0
        BY <3>2 DEF Tiled, PlacesApart
      <3>4. bf[c][v].off \in Nat /\ bf[c][v].cap \in Nat
        BY <1>1, PlaceTypes
      <3> QED
        BY <3>3, <3>4
    <2>7. Fresh(s, i, bf, cap, dedicated, locked)
      <3>1. dedicated \in BOOLEAN /\ locked \in BOOLEAN
        OBVIOUS
      <3>2. \A c \in AnyBuf, v \in Ways : bf[c][v].slab # i
        BY <2>6
      <3> QED
        BY <2>2, <3>1, <3>2, MapTiled
    <2>8. p = PlaceIn(s, i, cap)
      BY <2>7 DEF PlaceIn, Fresh
    <2>5. Room(s, i, bf, cap) /\ s \in SlabSet /\ s.locked = locked /\ Mem!Fits(s, cap) # {}
      BY <2>6, <2>7 DEF Room, Fresh, Tiled
    <2>10. t \in SlabSet /\ t.size = s.size /\ t.locked = locked /\ t.size \in Nat
      <3>1. t \in SlabSet /\ t.size = s.size /\ t.locked = locked
        BY <2>5, AllocParts
      <3> QED
        BY <3>1 DEF SlabSet
    <2>9. OneSlab(slabs, a.slabs, i, t)
      <3>1. CASE reuse
        <4>1. a.slabs = [slabs EXCEPT ![i] = t] /\ i \in 1 .. Len(slabs)
          BY <2>1, <2>3, <3>1
        <4> QED
          BY <1>1, <2>10, <4>1, PutSlab
      <3>2. CASE ~reuse
        <4>1. a.slabs = Append(slabs, t) /\ i = Len(slabs) + 1
          BY <2>1, <3>2
        <4> QED
          BY <1>1, <2>10, <4>1, AddSlab
      <3> QED
        BY <3>1, <3>2
    <2>15. p \in PlaceSet /\ Sound(a.slabs, Moved(bf, b, p))
      <3>1. OneSlab(slabs, a.slabs, i, Mem!SlabAlloc(s, cap))
        BY <2>9
      <3>2. PlaceIn(s, i, cap) \in PlaceSet /\ Sound(a.slabs, Moved(bf, b, PlaceIn(s, i, cap)))
        <4> HIDE DEF PlaceIn
        <4> QED
          BY <2>5, <3>1, GivenSound, ZenonT(60)
      <3> QED
        BY <2>8, <3>2
    <2>11. Posted(a.slabs, a.counters)
      <3>1. BytesAt(slabs, LockedSlabs(slabs), i) = 0 /\ BytesAt(slabs, RefusedSlabs(slabs), i) = 0
        BY <1>1, <2>3, <2>4 DEF BytesAt, LockedSlabs, RefusedSlabs
      <3>2. /\ BytesAt(a.slabs, LockedSlabs(a.slabs), i) = IF kernel = "locked" THEN t.size ELSE 0
            /\ BytesAt(a.slabs, RefusedSlabs(a.slabs), i) = IF kernel = "locked" THEN 0 ELSE t.size
        BY <2>9, <2>10 DEF BytesAt, LockedSlabs, RefusedSlabs, OneSlab
      <3>3. \A j \in Nat : j # i => /\ j \in 1 .. Len(slabs) <=> j \in 1 .. Len(a.slabs)
                                    /\ j \in 1 .. Len(slabs) =>
                                         /\ slabs[j].size = a.slabs[j].size
                                         /\ slabs[j].locked = a.slabs[j].locked
        BY <1>1, <2>9 DEF OneSlab
      <3>4. /\ BytesIn(a.slabs, LockedSlabs(a.slabs)) \in Nat /\ BytesIn(slabs, LockedSlabs(slabs)) \in Nat
            /\ BytesIn(a.slabs, LockedSlabs(a.slabs)) - BytesAt(a.slabs, LockedSlabs(a.slabs), i)
                  = BytesIn(slabs, LockedSlabs(slabs)) - BytesAt(slabs, LockedSlabs(slabs), i)
            /\ BytesIn(a.slabs, RefusedSlabs(a.slabs)) \in Nat /\ BytesIn(slabs, RefusedSlabs(slabs)) \in Nat
            /\ BytesIn(a.slabs, RefusedSlabs(a.slabs)) - BytesAt(a.slabs, RefusedSlabs(a.slabs), i)
                  = BytesIn(slabs, RefusedSlabs(slabs)) - BytesAt(slabs, RefusedSlabs(slabs), i)
        BY <1>1, <2>4, <2>9, <3>3, KindsDiffer DEF OneSlab
      <3>5. a.counters \in [locked : Int, unlocked : Int, failed : Int]
        BY <1>2, <2>1, <2>10 DEF Mem!Count
      <3>6. /\ a.counters.locked = counters.locked + (IF kernel = "locked" THEN t.size ELSE 0)
            /\ a.counters.unlocked = counters.unlocked + (IF kernel = "refused" THEN t.size ELSE 0)
        BY <2>1 DEF Mem!Count
      <3>7. a.counters.locked = BytesIn(a.slabs, LockedSlabs(a.slabs))
        BY <1>2, <2>10, <3>1, <3>2, <3>4, <3>6, SMTT(30)
      <3>8. a.counters.unlocked = BytesIn(a.slabs, RefusedSlabs(a.slabs))
        BY <1>2, <1>6, <2>10, <3>1, <3>2, <3>4, <3>6, SMTT(30) DEF KernelAnswers
      <3> QED
        BY <3>5, <3>7, <3>8 DEF Posted
    <2>12. ASSUME NEW c \in AnyBuf, NEW v \in Ways, bf[c][v].slab > 0
           PROVE  a.slabs[bf[c][v].slab].locked = slabs[bf[c][v].slab].locked
      <3>1. bf[c][v].slab \in 1 .. Len(slabs) /\ bf[c][v].slab # i
        BY <1>3, <2>6, <2>12
      <3>2. bf[c][v].slab \in 1 .. Len(a.slabs)
        BY <1>1, <2>9, <3>1 DEF OneSlab
      <3> QED
        BY <2>9, <3>1, <3>2 DEF OneSlab
    <2>13. p.cap = cap /\ p.slab = i
      OBVIOUS
    <2>14. p.slab \in 0 .. Len(a.slabs)
      BY <2>9, <2>13 DEF OneSlab
    <2> QED
      BY <2>1, <2>15, <2>11, <2>12, <2>13, <2>14 DEF Allotted
  <1> QED
    BY <1>4, <1>5, <1>6

----------------------------------------------------------------------------
\* The arena through its operations.

KeyAsTold(ss, bf, said) ==
    LET i == bf[KeyBuf].place.slab IN said = "locked-slab" => i \in 1 .. Len(ss) /\ ss[i].locked
MemInv == Sound(slabs, buf) /\ Posted(slabs, counters) /\ KeyAsTold(slabs, buf, backing)

\* The slabs of the places in bf are as locked in tt as they were, but for one place.
SlabsLocked(bf, tt, b, w) ==
    \A c \in AnyBuf, v \in Ways : ~(c = b /\ v = w) /\ bf[c][v].slab > 0 =>
        bf[c][v].slab \in 1 .. Len(tt) /\ tt[bf[c][v].slab].locked = slabs[bf[c][v].slab].locked

\* A record for buffer b.
Record(bf, b, r) == [bf EXCEPT ![b] = r]

\* A buffer with another record is all that changed.
LEMMA WithRecord ==
    ASSUME NEW bf \in Bufs, NEW b \in AnyBuf, NEW r \in BufSet
    PROVE  Changed(bf, Record(bf, b, r), b) /\ Record(bf, b, r)[b] = r
  <1>1. Record(bf, b, r) \in Bufs
    BY DEF Bufs, Record
  <1> QED
    BY <1>1 DEF Bufs, Changed, Record

\* A buffer is given a place and written to.
Given(bf, bg, b, w, tt, cs) == Sound(tt, bg) /\ Posted(tt, cs) /\ SlabsLocked(bf, tt, b, w)

\* A buffer that is allotted a range and written to leaves the arena sound.
LEMMA NewSound ==
    ASSUME NEW bf, NEW bg, NEW b \in AnyBuf, NEW cap \in Nat, cap > 0, NEW len \in Nat, len <= cap,
           NEW kernel \in KernelAnswers, NEW a, a = Mem!ArenaAlloc(cap, kernel), NEW tt, tt = Mem!Fill(a.slabs, a.place, 0, len, b),
           Sound(slabs, bf), Posted(slabs, counters), bf[b].place = Mem!NoPlace,
           Changed(bf, bg, b), bg[b].place = a.place, bg[b].old = bf[b].old, bg[b].len = len
    PROVE  Given(bf, bg, b, "place", tt, a.counters)
  <1>1. Allotted(bf, b, cap, a)
    BY AllocSound, MemoryAssumption
  <1> PICK bh : bh = Moved(bf, b, a.place)
    OBVIOUS
  <1>2. a.place \in PlaceSet /\ a.place.cap = cap /\ Sound(a.slabs, bh) /\ Posted(a.slabs, a.counters)
    BY <1>1 DEF Allotted
  <1>3. bf \in Bufs /\ bg \in Bufs
    BY DEF Changed
  <1>4. MovedTo(bf, bh, b, a.place)
    BY <1>2, <1>3, WithPlace
  <1>5. /\ Changed(bf, bh, b) /\ bh[b].place = a.place /\ bh[b].len = bf[b].len /\ bh[b].old = bf[b].old
        /\ OnlyPlace(bf, bh, b, "place")
    BY <1>4 DEF MovedTo
  <1>6. bf[b].len = 0
    <2>1. bf[b].len <= 0
      BY DEF Sound, Mem!NoPlace
    <2>2. bf[b].len \in Nat
      BY <1>3, PlaceTypes DEF Ways
    <2> QED
      BY <2>1, <2>2
  <1>7. Changed(bh, bg, b)
    BY <1>5, SMTT(30) DEF Changed
  <1>8. /\ Sound(tt, bg) /\ Len(tt) = Len(a.slabs) /\ a.slabs \in Seq(SlabSet) /\ tt \in Seq(SlabSet)
        /\ \A i \in 1 .. Len(a.slabs) : tt[i].size = a.slabs[i].size /\ tt[i].locked = a.slabs[i].locked
    <2>1. /\ bg[b].place = bh[b].place /\ bg[b].old = bh[b].old /\ 0 <= len /\ len <= bh[b].place.cap
          /\ b = b /\ bh[b].len = 0 /\ bg[b].len = len /\ 0 \in Nat /\ bg \in Bufs
          /\ tt = Mem!Fill(a.slabs, bh[b].place, 0, len, b)
      BY <1>2, <1>3, <1>5, <1>6
    <2> QED
      <3>1. Sound(a.slabs, bh) /\ Changed(bh, bg, b)
        BY <1>2, <1>7
      <3> QED
        BY <2>1, <3>1, FillSound, SMTT(60)
  <1>9. Posted(tt, a.counters)
    BY <1>2, <1>8, PostedFrame
  <1>10. SlabsLocked(bf, tt, b, "place")
    <2> SUFFICES ASSUME NEW c \in AnyBuf, NEW v \in Ways, ~(c = b /\ v = "place"), bf[c][v].slab > 0
                 PROVE  /\ bf[c][v].slab \in 1 .. Len(tt)
                        /\ tt[bf[c][v].slab].locked = slabs[bf[c][v].slab].locked
      BY DEF SlabsLocked
    <2> PICK i : i = bf[c][v].slab
      OBVIOUS
    <2>1. bh[c][v] = bf[c][v]
      BY <1>5 DEF OnlyPlace
    <2>2. bh[c][v] = Mem!NoPlace \/ bh[c][v].slab \in 0 .. Len(a.slabs)
      BY <1>2 DEF Sound
    <2>3. i \in 1 .. Len(a.slabs)
      BY <1>8, <2>1, <2>2 DEF Mem!NoPlace
    <2>4. a.slabs[i].locked = slabs[i].locked
      BY <1>1 DEF Allotted
    <2> QED
      BY <1>8, <2>3, <2>4
  <1> QED
    BY <1>8, <1>9, <1>10 DEF Given

\* The place of the key's buffer is not another's.
LEMMA KeyStays ==
    ASSUME NEW bf, NEW bg, NEW b \in AnyBuf, NEW w \in Ways, NEW tt, b # KeyBuf, Changed(bf, bg, b),
           SlabsLocked(bf, tt, b, w), KeyAsTold(slabs, bf, backing)
    PROVE  KeyAsTold(tt, bg, backing)
  <1>1. KeyBuf \in AnyBuf /\ "place" \in Ways /\ bf \in Bufs
    BY DEF AnyBuf, Mem!Owner, Ways, Changed
  <1>2. bg[KeyBuf] = bf[KeyBuf]
    BY <1>1 DEF Changed
  <1>3. bf[KeyBuf]["place"] = bf[KeyBuf].place
    BY <1>1, PlaceTypes
  <1> PICK i : i = bf[KeyBuf].place.slab
    OBVIOUS
  <1>4. i > 0 => i \in 1 .. Len(tt) /\ tt[i].locked = slabs[i].locked
    BY <1>1, <1>3 DEF SlabsLocked
  <1> QED
    BY <1>2, <1>4 DEF KeyAsTold

\* A place that is to be left is a place left behind.
LEMMA LeftBehind ==
    ASSUME NEW bf, NEW bg, NEW b \in AnyBuf, Sound(slabs, bf), Changed(bf, bg, b), bf[b].old = Mem!NoPlace,
           bg[b] = [place |-> Mem!NoPlace, len |-> 0, old |-> bf[b].place]
    PROVE  Sound(slabs, bg)
  <1> PICK Turn : Turn = [w \in Ways |-> IF w = "place" THEN "old" ELSE "place"]
    OBVIOUS
  <1>1. bf \in Bufs /\ bg \in Bufs /\ slabs \in Seq(SlabSet) /\ Len(slabs) \in Nat
    BY DEF Sound, Changed
  <1>2. Ways = {"place", "old"} /\ "place" \in Ways /\ "old" \in Ways
    BY DEF Ways
  <1>3. /\ bf[b].len \in Nat /\ bf[b].place.cap \in Nat /\ bf[b].len <= bf[b].place.cap
        /\ bf[b]["place"] = bf[b].place /\ bf[b]["old"] = bf[b].old
        /\ bg[b]["place"] = bg[b].place /\ bg[b]["old"] = bg[b].old
    BY <1>1, <1>2, PlaceTypes DEF Sound
  <1>4. /\ bg[b]["place"] = bf[b]["old"] /\ bg[b]["old"] = bf[b]["place"]
        /\ bg[b]["place"] = Mem!NoPlace /\ bg[b].place = Mem!NoPlace /\ Mem!NoPlace.slab = -1
        /\ Mem!NoPlace.cap = 0 /\ bg[b].len = 0
    BY <1>3 DEF Mem!NoPlace
  <1>5. \A c \in AnyBuf : c # b => bg[c] = bf[c]
    BY DEF Changed
  <1> DEFINE old(c, w) == IF c = b THEN Turn[w] ELSE w
  <1>6. \A c \in AnyBuf, w \in Ways : old(c, w) \in Ways /\ bg[c][w] = bf[c][old(c, w)]
                                       /\ bf[c][w] = bg[c][old(c, w)] /\ old(c, old(c, w)) = w
    BY <1>2, <1>4, <1>5
  <1> HIDE DEF old
  <1>7. ASSUME NEW i \in 1 .. Len(slabs) PROVE Tiled(slabs[i], i, bg)
    <2> PICK s : s = slabs[i]
      OBVIOUS
    <2>1. Tiled(s, i, bf) /\ i \in Nat /\ i > 0
      BY <1>7 DEF Sound
    <2>2. PlacesApart(s, i, bg)
      <3>1. ASSUME NEW c \in AnyBuf, NEW w \in Ways, bg[c][w].slab = i
            PROVE  /\ bg[c][w].cap > 0 /\ bg[c][w].off + bg[c][w].cap <= s.size
                   /\ \A f \in s.free : Apart(f[1], f[2], bg[c][w].off, bg[c][w].cap)
        <4>1. old(c, w) \in Ways /\ bg[c][w] = bf[c][old(c, w)]
          BY <1>6
        <4> QED
          BY <2>1, <3>1, <4>1 DEF Tiled, PlacesApart
      <3>2. ASSUME NEW c \in AnyBuf, NEW d \in AnyBuf, NEW w \in Ways, NEW v \in Ways,
                   bg[c][w].slab = i, bg[d][v].slab = i
            PROVE  \/ c = d /\ w = v
                   \/ ~s.dedicated /\ Apart(bg[c][w].off, bg[c][w].cap, bg[d][v].off, bg[d][v].cap)
        <4>1. old(c, w) \in Ways /\ bg[c][w] = bf[c][old(c, w)] /\ old(c, old(c, w)) = w
          BY <1>6
        <4>2. old(d, v) \in Ways /\ bg[d][v] = bf[d][old(d, v)] /\ old(d, old(d, v)) = v
          BY <1>6
        <4>3. \/ c = d /\ old(c, w) = old(d, v)
              \/ ~s.dedicated /\ Apart(bg[c][w].off, bg[c][w].cap, bg[d][v].off, bg[d][v].cap)
          BY <2>1, <3>2, <4>1, <4>2 DEF Tiled, PlacesApart
        <4> QED
          BY <4>1, <4>2, <4>3
      <3> QED
        BY <3>1, <3>2 DEF PlacesApart
    <2>3. Covered(s, i, bg)
      <3> SUFFICES ASSUME NEW g \in Nat, g < s.size, ~\E f \in s.free : Inside(g, f[1], f[2])
                   PROVE  \E c \in AnyBuf, w \in Ways : bg[c][w].slab = i /\ Inside(g, bg[c][w].off, bg[c][w].cap)
        BY DEF Covered
      <3>1. PICK c \in AnyBuf, w \in Ways : bf[c][w].slab = i /\ Inside(g, bf[c][w].off, bf[c][w].cap)
        BY <2>1 DEF Tiled, Covered
      <3> QED
        BY <1>6, <3>1
    <2>4. Written(s, i, bg)
      BY <1>4, <1>5, <2>1 DEF Tiled, Written
    <2>5. Wiped(s, i, bg)
      <3> SUFFICES ASSUME NEW g \in Nat, g < s.size, s.mem[g] # Mem!Zero
                   PROVE  \E c \in AnyBuf, w \in Ways : bg[c][w].slab = i /\ Inside(g, bg[c][w].off, Used(bg, c, w))
        BY DEF Wiped
      <3>1. PICK c \in AnyBuf, w \in Ways : bf[c][w].slab = i /\ Inside(g, bf[c][w].off, Used(bf, c, w))
        BY <2>1 DEF Tiled, Wiped
      <3>2. CASE c = b
        <4>1. w = "place"
          BY <1>2, <1>3, <1>4, <2>1, <3>1, <3>2
        <4>2. bg[b]["old"].slab = i /\ Inside(g, bg[b]["old"].off, bf[b].len)
          BY <1>4, <3>1, <3>2, <4>1 DEF Used
        <4>3. Used(bg, b, "old") = bf[b].place.cap
          BY <1>3, <1>4 DEF Used
        <4>4. bg[b]["old"].off \in Nat
          BY <1>1, <1>2, PlaceTypes
        <4>5. Inside(g, bg[b]["old"].off, Used(bg, b, "old"))
          BY <1>3, <4>2, <4>3, <4>4 DEF Inside
        <4> QED
          BY <1>2, <4>2, <4>5
      <3>3. CASE c # b
        BY <1>5, <3>1, <3>3 DEF Used
      <3> QED
        BY <3>2, <3>3
    <2> QED
      BY <2>1, <2>2, <2>3, <2>4, <2>5 DEF Tiled
  <1>8. \A c \in AnyBuf : bg[c].len <= bg[c].place.cap
    BY <1>4, <1>5 DEF Sound
  <1>9. \A c \in AnyBuf, w \in Ways : bg[c][w] = Mem!NoPlace \/ bg[c][w].slab \in 0 .. Len(slabs)
    <2> SUFFICES ASSUME NEW c \in AnyBuf, NEW w \in Ways
                 PROVE  bg[c][w] = Mem!NoPlace \/ bg[c][w].slab \in 0 .. Len(slabs)
      OBVIOUS
    <2>1. old(c, w) \in Ways /\ bg[c][w] = bf[c][old(c, w)]
      BY <1>6
    <2> QED
      BY <2>1 DEF Sound
  <1>10. \A i \in 1 .. Len(slabs) : Tiled(slabs[i], i, bg) /\ LiveOne(slabs[i])
    BY <1>7 DEF Sound
  <1> QED
    BY <1>1, <1>8, <1>9, <1>10 DEF Sound

\* Writing within a place, and cutting.
LEMMA FillStep ==
    ASSUME NEW b \in AnyBuf, NEW bg, NEW tt, NEW lo \in Nat, NEW hi \in Nat, NEW what, lo <= hi,
           MemInv, b # KeyBuf, Changed(buf, bg, b), bg[b].place = buf[b].place, bg[b].old = buf[b].old,
           hi <= buf[b].place.cap,
           \/ what = b /\ buf[b].len = lo /\ bg[b].len = hi
           \/ what = Mem!Zero /\ buf[b].len = hi /\ bg[b].len = lo,
           tt = Mem!Fill(slabs, buf[b].place, lo, hi, what)
    PROVE  Sound(tt, bg) /\ Posted(tt, counters) /\ KeyAsTold(tt, bg, backing)
  <1>1. Sound(slabs, buf) /\ Posted(slabs, counters) /\ KeyAsTold(slabs, buf, backing) /\ bg \in Bufs
        /\ buf \in Bufs
    BY DEF MemInv, Changed
  <1>2. /\ Sound(tt, bg) /\ Len(tt) = Len(slabs) /\ slabs \in Seq(SlabSet) /\ tt \in Seq(SlabSet)
        /\ \A i \in 1 .. Len(slabs) : tt[i].size = slabs[i].size /\ tt[i].locked = slabs[i].locked
    BY <1>1, FillSound
  <1>3. Posted(tt, counters)
    BY <1>1, <1>2, PostedFrame
  <1>4. bg[KeyBuf] = buf[KeyBuf]
    BY DEF Changed, AnyBuf, Mem!Owner
  <1>5. KeyAsTold(tt, bg, backing)
    BY <1>1, <1>2, <1>4 DEF KeyAsTold
  <1> QED
    BY <1>2, <1>3, <1>5

----------------------------------------------------------------------------
\* One lemma for each operation.

\* with_capacity and what is written at once.
LEMMA NewStep ==
    ASSUME NEW b \in AnyBuf, NEW cap \in Nat, cap > 0, NEW len \in {0, cap}, NEW kernel \in KernelAnswers,
           MemInv, Mem!New(b, cap, len, kernel)
    PROVE  Changed(buf, buf', b) /\ Given(buf, buf', b, "place", slabs', counters')
  <1> PICK a : a = Mem!ArenaAlloc(cap, kernel)
    OBVIOUS
  <1>1. Sound(slabs, buf) /\ Posted(slabs, counters) /\ buf \in Bufs
    BY DEF MemInv, Sound
  <1>2. /\ buf[b] = Mem!Empty /\ slabs' = Mem!Fill(a.slabs, a.place, 0, len, b) /\ counters' = a.counters
        /\ buf' = [buf EXCEPT ![b].place = a.place, ![b].len = len]
    BY DEF Mem!New
  <1>3. buf[b].place = Mem!NoPlace /\ buf[b] \in BufSet
    BY <1>1, <1>2, PlaceTypes DEF Mem!Empty, Ways
  <1>4. Allotted(buf, b, cap, a)
    BY <1>1, <1>3, AllocSound, MemoryAssumption
  <1>5. a.place \in PlaceSet
    BY <1>4 DEF Allotted
  <1> PICK r : r = [place |-> a.place, len |-> len, old |-> buf[b].old]
    OBVIOUS
  <1>6. r \in BufSet /\ len \in Nat /\ len <= cap
    BY <1>3, <1>5 DEF BufSet
  <1>7. buf' = Record(buf, b, r)
    <2> PICK q : q = [[buf[b] EXCEPT !.place = a.place] EXCEPT !.len = len]
      OBVIOUS
    <2>1. q \in BufSet
      BY <1>3, <1>5, <1>6 DEF BufSet
    <2>2. q.place = a.place /\ q.len = len /\ q.old = buf[b].old
      BY <1>3 DEF BufSet
    <2>3. q = r
      BY <2>1, <2>2 DEF BufSet
    <2> QED
      BY <1>1, <1>2, <2>3 DEF Record, Bufs
  <1>8. Changed(buf, buf', b) /\ buf'[b] = r
    BY <1>1, <1>6, <1>7, WithRecord
  <1>9. buf'[b].place = a.place /\ buf'[b].old = buf[b].old /\ buf'[b].len = len
    BY <1>8
  <1>10. Given(buf, buf', b, "place", slabs', a.counters)
    BY <1>1, <1>2, <1>3, <1>6, <1>8, <1>9, NewSound
  <1> QED
    BY <1>2, <1>8, <1>10

\* reserve: the new range, the bytes copied, and the old range left behind.
LEMMA GrowStep ==
    ASSUME NEW b \in AnyBuf, b # KeyBuf, NEW n \in Nat, n > 0, NEW kernel \in KernelAnswers, MemInv, Mem!Grow(b, n, kernel)
    PROVE  MemInv'
  <1>1. Sound(slabs, buf) /\ Posted(slabs, counters) /\ KeyAsTold(slabs, buf, backing) /\ buf \in Bufs
    BY DEF MemInv, Sound
  <1> PICK needed, cap : needed = buf[b].len + n /\ cap = Mem!Max({needed, 2 * buf[b].place.cap})
    OBVIOUS
  <1> PICK a : a = Mem!ArenaAlloc(cap, kernel)
    OBVIOUS
  <1>2. /\ buf[b].old = Mem!NoPlace /\ needed > buf[b].place.cap
        /\ slabs' = Mem!Fill(a.slabs, a.place, 0, needed, b) /\ counters' = a.counters
        /\ buf' = [buf EXCEPT ![b] = [place |-> a.place, len |-> needed, old |-> @.place]]
        /\ backing' = backing
    BY DEF Mem!Grow, Mem!Idle
  <1>3. /\ buf[b].len \in Nat /\ buf[b].place \in PlaceSet /\ buf[b].old \in PlaceSet
        /\ buf[b].place.cap \in Nat /\ buf[b].len <= buf[b].place.cap
    BY <1>1, PlaceTypes DEF Ways, BufSet, PlaceSet, Sound
  <1>4. needed \in Nat /\ cap \in Nat /\ needed <= cap /\ cap > 0
    <2>1. needed \in Nat /\ needed > 0 /\ 2 * buf[b].place.cap \in Nat
      BY <1>3
    <2> PICK T : T = {needed, 2 * buf[b].place.cap}
      OBVIOUS
    <2>2. T \in SUBSET Nat /\ needed \in T /\ \A x \in T : x <= needed + 2 * buf[b].place.cap
      BY <1>3, <2>1
    <2>3. cap \in T /\ \A m \in T : m <= cap
      <3>1. needed + 2 * buf[b].place.cap \in Nat /\ T # {}
        BY <2>1, <2>2
      <3>2. Mem!Max(T) \in T /\ \A m \in T : m <= Mem!Max(T)
        BY <2>2, <3>1, GreatestIs
      <3> QED
        BY <3>2
    <2> QED
      BY <2>1, <2>2, <2>3
  \* The old place becomes the place left behind: all of it may hold bytes.
  <1> PICK bf : bf = Record(buf, b, [place |-> Mem!NoPlace, len |-> 0, old |-> buf[b].place])
    OBVIOUS
  <1>5. Mem!NoPlace \in PlaceSet
    BY DEF Mem!NoPlace, PlaceSet
  <1>6. Changed(buf, bf, b) /\ bf[b] = [place |-> Mem!NoPlace, len |-> 0, old |-> buf[b].place]
    BY <1>1, <1>3, <1>5, WithRecord DEF BufSet
  <1>7. Sound(slabs, bf)
    BY <1>1, <1>2, <1>3, <1>6, LeftBehind
  <1>8. /\ bf \in Bufs /\ bf[b].place = Mem!NoPlace /\ bf[b].old = buf[b].place
        /\ \A c \in AnyBuf : c # b => bf[c] = buf[c]
    BY <1>6 DEF Changed
  <1>9. Allotted(bf, b, cap, a)
    BY <1>1, <1>4, <1>7, <1>8, AllocSound, MemoryAssumption
  <1>10. a.place \in PlaceSet
    BY <1>9 DEF Allotted
  <1> PICK r : r = [place |-> a.place, len |-> needed, old |-> buf[b].place]
    OBVIOUS
  <1>11. r \in BufSet /\ buf' = Record(buf, b, r)
    BY <1>2, <1>3, <1>4, <1>10 DEF BufSet, Record
  <1>12. Changed(buf, buf', b) /\ buf'[b] = r
    BY <1>1, <1>11, WithRecord
  <1>13. Changed(bf, buf', b)
    BY <1>8, <1>12 DEF Changed
  <1>14. buf'[b].place = a.place /\ buf'[b].old = bf[b].old /\ buf'[b].len = needed
    BY <1>8, <1>12
  <1>15. Given(bf, buf', b, "place", slabs', a.counters)
    BY <1>1, <1>2, <1>4, <1>7, <1>8, <1>13, <1>14, NewSound
  <1>16. KeyAsTold(slabs, bf, backing)
    BY <1>1, <1>8 DEF KeyAsTold, AnyBuf, Mem!Owner
  <1>17. KeyAsTold(slabs', buf', backing)
    <2>1. SlabsLocked(bf, slabs', b, "place") /\ "place" \in Ways
      BY <1>15 DEF Given, Ways
    <2> QED
      BY <1>13, <1>16, <2>1, KeyStays
  <1> QED
    BY <1>2, <1>15, <1>17 DEF MemInv, Given

\* A buffer with another length.
Relen(bf, bg, b, n) ==
    /\ Changed(bf, bg, b) /\ bg[b].place = bf[b].place /\ bg[b].old = bf[b].old /\ bg[b].len = n

\* A buffer with another length is otherwise the same.
LEMMA WithLen ==
    ASSUME NEW bf \in Bufs, NEW b \in AnyBuf, NEW n \in Nat
    PROVE  Relen(bf, Record(bf, b, [bf[b] EXCEPT !.len = n]), b, n)
  <1> PICK r : r = [bf[b] EXCEPT !.len = n]
    OBVIOUS
  <1>1. bf[b] \in BufSet
    BY PlaceTypes DEF Ways
  <1>2. r \in BufSet /\ r.place = bf[b].place /\ r.old = bf[b].old /\ r.len = n
    BY <1>1 DEF BufSet
  <1>3. Changed(bf, Record(bf, b, r), b) /\ Record(bf, b, r)[b] = r
    BY <1>2, WithRecord
  <1> QED
    BY <1>2, <1>3 DEF Relen

\* No slab, no bytes.
LEMMA NoBytes == BytesIn(<<>>, {}) = 0
  <1> PICK ss : ss = <<>>
    OBVIOUS
  <1>1. ss \in Seq(SlabSet) /\ {} \in SUBSET (1 .. Len(ss))
    OBVIOUS
  <1>2. PICK g : IsSum(g, Sizes(ss, {}), {}) /\ BytesIn(ss, {}) = g[{}]
    BY <1>1, BytesAreSum
  <1>3. g[{}] = 0
    BY <1>1, <1>2 DEF IsSum, SumAt
  <1> QED
    BY <1>1, <1>2, <1>3

\* extend_from_slice where there is room.
LEMMA ExtendStep ==
    ASSUME NEW b \in AnyBuf, b # KeyBuf, NEW n \in Nat, MemInv, Mem!Extend(b, n)
    PROVE  MemInv'
  <1>1. buf \in Bufs
    BY DEF MemInv, Sound
  <1> PICK lo, hi : lo = buf[b].len /\ hi = buf[b].len + n
    OBVIOUS
  <1>2. buf[b] \in BufSet /\ lo \in Nat /\ hi \in Nat /\ lo <= hi
    BY <1>1, PlaceTypes DEF Ways
  <1>3. /\ hi <= buf[b].place.cap /\ slabs' = Mem!Fill(slabs, buf[b].place, lo, hi, b)
        /\ buf' = [buf EXCEPT ![b].len = @ + n] /\ counters' = counters /\ backing' = backing
    BY DEF Mem!Extend
  <1>4. buf' = Record(buf, b, [buf[b] EXCEPT !.len = hi])
    BY <1>1, <1>3 DEF Record
  <1>5. Relen(buf, buf', b, hi)
    BY <1>1, <1>2, <1>4, WithLen
  <1>6. Changed(buf, buf', b) /\ buf'[b].place = buf[b].place /\ buf'[b].old = buf[b].old /\ buf'[b].len = hi
    BY <1>5 DEF Relen
  <1>7. Sound(slabs', buf') /\ Posted(slabs', counters) /\ KeyAsTold(slabs', buf', backing)
    BY <1>2, <1>3, <1>6, FillStep
  <1> QED
    BY <1>3, <1>7 DEF MemInv

\* truncate wipes what it cuts off.
LEMMA TruncateStep ==
    ASSUME NEW b \in AnyBuf, b # KeyBuf, NEW len \in Nat, MemInv, Mem!Truncate(b, len)
    PROVE  MemInv'
  <1>1. buf \in Bufs
    BY DEF MemInv, Sound
  <1> PICK hi : hi = buf[b].len
    OBVIOUS
  <1>2. buf[b] \in BufSet /\ hi \in Nat /\ hi <= buf[b].place.cap
    BY <1>1, PlaceTypes DEF Ways, MemInv, Sound
  <1>3. /\ len <= hi /\ slabs' = Mem!Fill(slabs, buf[b].place, len, hi, Mem!Zero)
        /\ buf' = [buf EXCEPT ![b].len = len] /\ counters' = counters /\ backing' = backing
    BY <1>2 DEF Mem!Truncate
  <1>4. buf' = Record(buf, b, [buf[b] EXCEPT !.len = len])
    BY <1>1, <1>3 DEF Record
  <1>5. Relen(buf, buf', b, len)
    BY <1>1, <1>4, WithLen
  <1>6. Changed(buf, buf', b) /\ buf'[b].place = buf[b].place /\ buf'[b].old = buf[b].old /\ buf'[b].len = len
    BY <1>5 DEF Relen
  <1>7. Sound(slabs', buf') /\ Posted(slabs', counters) /\ KeyAsTold(slabs', buf', backing)
    BY <1>2, <1>3, <1>6, FillStep
  <1> QED
    BY <1>3, <1>7 DEF MemInv

\* A place given back, of a buffer that keeps the other one or none.
LEMMA FreeStep ==
    ASSUME NEW b \in AnyBuf, b # KeyBuf, NEW w \in Ways, NEW r \in BufSet, NEW a, MemInv,
           a = Mem!ArenaFree(buf[b][w]), slabs' = a.slabs, counters' = a.counters, backing' = backing,
           buf' = Record(buf, b, r), r[w] = Mem!NoPlace, r.len <= r.place.cap,
           \/ w = "old" /\ r.place = buf[b].place /\ r.len = buf[b].len
           \/ w = "place" /\ r.old = buf[b].old
    PROVE  MemInv'
  <1>1. Sound(slabs, buf) /\ Posted(slabs, counters) /\ KeyAsTold(slabs, buf, backing) /\ buf \in Bufs
    BY DEF MemInv, Sound
  <1>2. Changed(buf, buf', b) /\ buf'[b] = r
    BY <1>1, WithRecord
  <1>3. OnlyPlace(buf, buf', b, w)
    BY <1>2, ChangedPlace
  <1>4. Freed(buf, buf', b, w, a)
    BY <1>1, <1>2, <1>3, FreeSound
  <1>5. Sound(slabs', buf') /\ Posted(slabs', counters') /\ Len(slabs') = Len(slabs)
    BY <1>4 DEF Freed
  <1>6. SlabsLocked(buf, slabs', b, w)
    <2> SUFFICES ASSUME NEW c \in AnyBuf, NEW v \in Ways, ~(c = b /\ v = w), buf[c][v].slab > 0
                 PROVE  /\ buf[c][v].slab \in 1 .. Len(slabs')
                        /\ slabs'[buf[c][v].slab].locked = slabs[buf[c][v].slab].locked
      BY DEF SlabsLocked
    <2>1. slabs'[buf[c][v].slab].locked = slabs[buf[c][v].slab].locked
      BY <1>4 DEF Freed
    <2>2. buf[c][v] = Mem!NoPlace \/ buf[c][v].slab \in 0 .. Len(slabs)
      BY <1>1 DEF Sound
    <2>3. Len(slabs) \in Nat
      BY <1>1 DEF Sound
    <2> QED
      BY <1>5, <2>1, <2>2, <2>3 DEF Mem!NoPlace
  <1>7. KeyAsTold(slabs', buf', backing)
    BY <1>1, <1>2, <1>6, KeyStays
  <1> QED
    BY <1>5, <1>7 DEF MemInv

\* The range left behind is dropped.
LEMMA LeaveStep ==
    ASSUME NEW b \in AnyBuf, b # KeyBuf, MemInv, Mem!Leave(b)
    PROVE  MemInv'
  <1>1. buf \in Bufs /\ "old" \in Ways
    BY DEF MemInv, Sound, Ways
  <1>2. buf[b] \in BufSet /\ buf[b]["old"] = buf[b].old /\ buf[b].len <= buf[b].place.cap
    BY <1>1, PlaceTypes DEF MemInv, Sound
  <1> PICK r : r = [buf[b] EXCEPT !.old = Mem!NoPlace]
    OBVIOUS
  <1>3. Mem!NoPlace \in PlaceSet
    BY DEF Mem!NoPlace, PlaceSet
  <1>4. /\ r \in BufSet /\ r["old"] = Mem!NoPlace /\ r.place = buf[b].place /\ r.len = buf[b].len
    BY <1>2, <1>3 DEF BufSet
  <1> PICK a : a = Mem!ArenaFree(buf[b]["old"])
    OBVIOUS
  <1>5. /\ slabs' = a.slabs /\ counters' = a.counters /\ backing' = backing
        /\ buf' = [buf EXCEPT ![b].old = Mem!NoPlace]
    BY <1>2 DEF Mem!Leave
  <1>6. buf' = Record(buf, b, r)
    BY <1>5 DEF Record
  <1> QED
    BY <1>1, <1>2, <1>4, <1>5, <1>6, FreeStep

\* A buffer is dropped.
LEMMA DropStep ==
    ASSUME NEW b \in AnyBuf, b # KeyBuf, MemInv, Mem!Drop(b)
    PROVE  MemInv'
  <1>1. buf \in Bufs /\ "place" \in Ways
    BY DEF MemInv, Sound, Ways
  <1>2. buf[b]["place"] = buf[b].place
    BY <1>1, PlaceTypes
  <1> PICK r : r = Mem!Empty
    OBVIOUS
  <1>3. r \in BufSet /\ r["place"] = Mem!NoPlace /\ r.len <= r.place.cap /\ r.old = Mem!NoPlace
    BY DEF Mem!Empty, Mem!NoPlace, BufSet, PlaceSet
  <1> PICK a : a = Mem!ArenaFree(buf[b]["place"])
    OBVIOUS
  <1>4. /\ slabs' = a.slabs /\ counters' = a.counters /\ backing' = backing
        /\ buf' = Record(buf, b, r) /\ buf[b].old = Mem!NoPlace
    BY <1>2 DEF Mem!Drop, Mem!Idle, Record
  <1> QED
    BY <1>1, <1>3, <1>4, FreeStep

\* A buffer is made.
LEMMA NewBufStep ==
    ASSUME NEW b \in AnyBuf, b # KeyBuf, NEW cap \in Nat, cap > 0, NEW len \in {0, cap}, NEW kernel \in KernelAnswers,
           MemInv, Mem!NewBuf(b, cap, len, kernel)
    PROVE  MemInv'
  <1>1. Mem!New(b, cap, len, kernel) /\ backing' = backing
    BY DEF Mem!NewBuf
  <1>2. Changed(buf, buf', b) /\ Given(buf, buf', b, "place", slabs', counters')
    BY <1>1, NewStep
  <1>3. SlabsLocked(buf, slabs', b, "place") /\ "place" \in Ways
    BY <1>2 DEF Given, Ways
  <1>4. KeyAsTold(slabs', buf', backing)
    BY <1>2, <1>3, KeyStays DEF MemInv
  <1> QED
    BY <1>1, <1>2, <1>4 DEF MemInv, Given

\* SessionKey::create says of its slab what the slab is.
LEMMA CreateKeyStep ==
    ASSUME NEW secretmem \in BOOLEAN, NEW kernel \in KernelAnswers, MemInv, Mem!CreateKey(secretmem, kernel)
    PROVE  MemInv'
  <1>1. CASE backing' = "memfd_secret" /\ slabs' = slabs /\ buf' = buf /\ counters' = counters
    BY <1>1 DEF MemInv, KeyAsTold
  <1>2. CASE Mem!New(KeyBuf, 1, 1, kernel)
             /\ backing' = (IF buf'[KeyBuf].place.slab > 0 /\ slabs'[buf'[KeyBuf].place.slab].locked
                            THEN "locked-slab" ELSE "unlocked")
    <2>1. KeyBuf \in AnyBuf /\ "place" \in Ways
      BY DEF AnyBuf, Mem!Owner, Ways
    <2>2. Given(buf, buf', KeyBuf, "place", slabs', counters')
      BY <1>2, <2>1, NewStep
    <2>3. Sound(slabs', buf') /\ Posted(slabs', counters')
      BY <2>2 DEF Given
    <2>4. buf'[KeyBuf]["place"] = buf'[KeyBuf].place
      BY <2>1, <2>3, PlaceTypes DEF Sound
    <2>5. buf'[KeyBuf].place = Mem!NoPlace \/ buf'[KeyBuf].place.slab \in 0 .. Len(slabs')
      BY <2>1, <2>3, <2>4 DEF Sound
    <2>6. Len(slabs') \in Nat
      BY <2>3 DEF Sound
    <2>7. KeyAsTold(slabs', buf', backing')
      BY <1>2, <2>5, <2>6 DEF KeyAsTold, Mem!NoPlace
    <2> QED
      BY <2>3, <2>7 DEF MemInv
  <1> QED
    BY <1>1, <1>2 DEF Mem!CreateKey

\* Every operation of the arena.
LEMMA MemStep ==
    ASSUME MemInv, Mem!Next
    PROVE  MemInv'
  <1>1. \A b \in Buf : b \in AnyBuf /\ b # KeyBuf
    BY MemoryAssumption DEF AnyBuf, Mem!Owner
  <1>2. MaxLen \in Nat
    BY MemoryAssumption
  <1>8. Mem!Kernel \subseteq KernelAnswers
    BY DEF Mem!Kernel, KernelAnswers
  <1>3. CASE \E b \in Buf, cap \in 1 .. MaxLen, k \in Mem!Kernel : \E len \in {0, cap} : Mem!NewBuf(b, cap, len, k)
    <2>1. PICK b \in Buf, cap \in 1 .. MaxLen, k \in Mem!Kernel : \E len \in {0, cap} : Mem!NewBuf(b, cap, len, k)
      BY <1>3
    <2>2. PICK len \in {0, cap} : Mem!NewBuf(b, cap, len, k)
      BY <2>1
    <2> QED
      BY <1>1, <1>2, <1>8, <2>2, NewBufStep
  <1>4. CASE \E b \in Buf, n \in 1 .. MaxLen : Mem!Extend(b, n) \/ \E k \in Mem!Kernel : Mem!Grow(b, n, k)
    BY <1>1, <1>2, <1>4, <1>8, ExtendStep, GrowStep
  <1>5. CASE \E b \in Buf : Mem!Leave(b) \/ Mem!Drop(b)
    BY <1>1, <1>5, LeaveStep, DropStep
  <1>6. CASE \E b \in Buf : \E len \in 0 .. MaxLen : Mem!Truncate(b, len)
    BY <1>1, <1>2, <1>6, TruncateStep
  <1>7. CASE \E secretmem \in BOOLEAN, k \in Mem!Kernel : Mem!CreateKey(secretmem, k)
    BY <1>7, <1>8, CreateKeyStep
  <1> QED
    BY <1>3, <1>4, <1>5, <1>6, <1>7 DEF Mem!Next

\* The arena as it begins.
LEMMA MemStart == Mem!Init => MemInv
  <1> SUFFICES ASSUME Mem!Init PROVE MemInv
    OBVIOUS
  <1>1. slabs = <<>> /\ Len(slabs) = 0 /\ buf = [b \in AnyBuf |-> Mem!Empty] /\ backing = "none"
        /\ counters = [locked |-> 0, unlocked |-> 0, failed |-> 0]
    BY DEF Mem!Init, AnyBuf
  <1>2. Mem!Empty \in BufSet /\ Mem!Empty.len <= Mem!Empty.place.cap
        /\ \A w \in Ways : Mem!Empty[w] = Mem!NoPlace
    BY DEF Mem!Empty, Mem!NoPlace, BufSet, PlaceSet, Ways
  <1>3. buf \in Bufs
    BY <1>1, <1>2 DEF Bufs
  <1>4. Sound(slabs, buf)
    BY <1>1, <1>2, <1>3 DEF Sound
  <1>5. BytesIn(slabs, LockedSlabs(slabs)) = 0 /\ BytesIn(slabs, RefusedSlabs(slabs)) = 0
    <2>1. LockedSlabs(slabs) = {} /\ RefusedSlabs(slabs) = {}
      BY <1>1 DEF LockedSlabs, RefusedSlabs
    <2> QED
      BY <1>1, <2>1, NoBytes
  <1>6. Posted(slabs, counters)
    BY <1>1, <1>5 DEF Posted
  <1> QED
    BY <1>1, <1>4, <1>6 DEF MemInv, KeyAsTold

----------------------------------------------------------------------------
\* What the arena promises.

\* A granule of a range is in none that is apart from it.
LEMMA NotInTwo ==
    ASSUME NEW a \in Nat, NEW m \in Nat, NEW b \in Nat, NEW n \in Nat, NEW g \in Nat,
           Apart(a, m, b, n), Inside(g, a, m)
    PROVE  ~Inside(g, b, n)
  BY DEF Apart, Inside

\* Of the free ranges and the places of a slab, one has granule g.
LEMMA OneHolder ==
    ASSUME Sound(slabs, buf), NEW i \in 1 .. Len(slabs), NEW g \in Mem!Span(0, slabs[i].size)
    PROVE  Cardinality({f \in slabs[i].free : g \in Mem!Span(f[1], f[2])}
                       \cup {h \in UNION {{b} \X Mem!Places(b) : b \in Mem!Owner} :
                               Mem!InSlab(i, h[2]) /\ g \in Mem!Span(h[2].off, h[2].cap)}) = 1
  <1> PICK s : s = slabs[i]
    OBVIOUS
  <1>1. Tiled(s, i, buf) /\ buf \in Bufs /\ s \in SlabSet /\ i > 0
    BY DEF Sound, Tiled
  <1>2. g \in Nat /\ g < s.size /\ s.size \in Nat
    BY <1>1 DEF Mem!Span, SlabSet
  <1> DEFINE Frees == {f \in s.free : g \in Mem!Span(f[1], f[2])}
             Holds == {h \in UNION {{b} \X Mem!Places(b) : b \in Mem!Owner} :
                         Mem!InSlab(i, h[2]) /\ g \in Mem!Span(h[2].off, h[2].cap)}
  <1>3. ASSUME NEW a \in Nat, NEW n \in Nat PROVE g \in Mem!Span(a, n) <=> Inside(g, a, n)
    BY <1>2 DEF Mem!Span, Inside
  <1>4. ASSUME NEW f \in s.free PROVE f[1] \in Nat /\ f[2] \in Nat
    BY <1>1 DEF SlabSet
  <1>5. Frees = {f \in s.free : Inside(g, f[1], f[2])}
    BY <1>3, <1>4
  <1>6. \A h \in Holds : \E b \in AnyBuf, w \in Ways :
           h = <<b, buf[b][w]>> /\ buf[b][w].slab = i /\ Inside(g, buf[b][w].off, buf[b][w].cap)
    <2> SUFFICES ASSUME NEW h \in Holds
                 PROVE  \E b \in AnyBuf, w \in Ways :
                           h = <<b, buf[b][w]>> /\ buf[b][w].slab = i /\ Inside(g, buf[b][w].off, buf[b][w].cap)
      OBVIOUS
    <2>1. PICK b \in AnyBuf : h \in {b} \X Mem!Places(b)
      BY DEF AnyBuf
    <2>2. h = <<b, h[2]>> /\ h[2] \in Mem!Places(b)
      BY <2>1
    <2>3. PICK w \in Ways : h[2] = buf[b][w]
      <3>1. "place" \in Ways /\ "old" \in Ways /\ buf[b]["place"] = buf[b].place /\ buf[b]["old"] = buf[b].old
        BY <1>1, PlaceTypes DEF Ways
      <3> QED
        BY <2>2, <3>1 DEF Mem!Places
    <2>4. buf[b][w].slab = i /\ g \in Mem!Span(buf[b][w].off, buf[b][w].cap)
      BY <2>3 DEF Mem!InSlab
    <2>5. buf[b][w].off \in Nat /\ buf[b][w].cap \in Nat
      BY <1>1, PlaceTypes
    <2> QED
      BY <1>3, <2>2, <2>3, <2>4, <2>5
  <1>7. ASSUME NEW b \in AnyBuf, NEW w \in Ways, buf[b][w].slab = i, Inside(g, buf[b][w].off, buf[b][w].cap)
        PROVE  <<b, buf[b][w]>> \in Holds
    <2>1. buf[b]["place"] = buf[b].place /\ buf[b]["old"] = buf[b].old /\ (w = "place" \/ w = "old")
      BY <1>1, PlaceTypes DEF Ways
    <2>2. buf[b][w] # Mem!NoPlace
      BY <1>1, <1>7 DEF Mem!NoPlace
    <2>3. buf[b][w] \in Mem!Places(b)
      BY <2>1, <2>2 DEF Mem!Places
    <2>4. buf[b][w].off \in Nat /\ buf[b][w].cap \in Nat
      BY <1>1, PlaceTypes
    <2>5. g \in Mem!Span(buf[b][w].off, buf[b][w].cap)
      BY <1>3, <1>7, <2>4
    <2> QED
      BY <1>7, <2>3, <2>5 DEF Mem!InSlab, AnyBuf
  <1> HIDE DEF Frees, Holds
  <1>8. Frees \cup Holds # {}
    <2>1. CASE \E f \in s.free : Inside(g, f[1], f[2])
      BY <1>5, <2>1
    <2>2. CASE \E b \in AnyBuf, w \in Ways : buf[b][w].slab = i /\ Inside(g, buf[b][w].off, buf[b][w].cap)
      BY <1>7, <2>2
    <2> QED
      BY <1>1, <1>2, <2>1, <2>2 DEF Tiled, Covered
  <1>9. ASSUME NEW x \in Frees, NEW y \in Frees PROVE x = y
    <2>1. x \in s.free /\ y \in s.free /\ Inside(g, x[1], x[2]) /\ Inside(g, y[1], y[2])
      BY <1>5
    <2>2. x[1] \in Nat /\ x[2] \in Nat /\ y[1] \in Nat /\ y[2] \in Nat
      BY <1>4, <2>1
    <2>3. x = y \/ Apart(x[1], x[2], y[1], y[2])
      BY <1>1, <2>1 DEF Tiled, FreeApart
    <2> QED
      BY <1>2, <2>1, <2>2, <2>3, NotInTwo
  <1>10. ASSUME NEW x \in Frees, NEW y \in Holds PROVE FALSE
    <2>1. x \in s.free /\ Inside(g, x[1], x[2])
      BY <1>5
    <2>2. x[1] \in Nat /\ x[2] \in Nat
      BY <1>4, <2>1
    <2>3. PICK b \in AnyBuf, w \in Ways :
            y = <<b, buf[b][w]>> /\ buf[b][w].slab = i /\ Inside(g, buf[b][w].off, buf[b][w].cap)
      BY <1>6
    <2>4. buf[b][w].off \in Nat /\ buf[b][w].cap \in Nat
      BY <1>1, PlaceTypes
    <2>5. Apart(x[1], x[2], buf[b][w].off, buf[b][w].cap)
      BY <1>1, <2>1, <2>3 DEF Tiled, PlacesApart
    <2> QED
      BY <1>2, <2>1, <2>2, <2>3, <2>4, <2>5, NotInTwo
  <1>11. ASSUME NEW x \in Holds, NEW y \in Holds PROVE x = y
    <2>1. PICK b \in AnyBuf, w \in Ways :
            x = <<b, buf[b][w]>> /\ buf[b][w].slab = i /\ Inside(g, buf[b][w].off, buf[b][w].cap)
      BY <1>6
    <2>2. PICK c \in AnyBuf, v \in Ways :
            y = <<c, buf[c][v]>> /\ buf[c][v].slab = i /\ Inside(g, buf[c][v].off, buf[c][v].cap)
      BY <1>6
    <2>3. /\ buf[b][w].off \in Nat /\ buf[b][w].cap \in Nat
          /\ buf[c][v].off \in Nat /\ buf[c][v].cap \in Nat
      BY <1>1, PlaceTypes
    <2>4. (b = c /\ w = v) \/ Apart(buf[b][w].off, buf[b][w].cap, buf[c][v].off, buf[c][v].cap)
      BY <1>1, <2>1, <2>2 DEF Tiled, PlacesApart
    <2> QED
      BY <1>2, <2>1, <2>2, <2>3, <2>4, NotInTwo
  <1>12. PICK x : Frees \cup Holds = {x}
    <2>1. PICK x : x \in Frees \cup Holds
      BY <1>8
    <2>2. ASSUME NEW y \in Frees \cup Holds PROVE y = x
      BY <1>9, <1>10, <1>11, <2>1
    <2>3. Frees \cup Holds = {x}
      BY <2>1, <2>2
    <2> QED
      BY <2>3
  <1>13. Cardinality(Frees \cup Holds) = 1
    BY <1>12, FS_Singleton
  <1> QED
    BY <1>13 DEF Frees, Holds

\* A buffer has its bytes, and what no buffer has is wiped.
LEMMA KeptAndWiped == ASSUME Sound(slabs, buf) PROVE Mem!BytesAreKept
  <1>1. buf \in Bufs /\ Len(slabs) \in Nat /\ AnyBuf = Mem!Owner /\ "place" \in Ways /\ "old" \in Ways
    BY DEF Sound, AnyBuf, Ways
  <1>2. ASSUME NEW b \in Mem!Owner, buf[b].place.slab > 0,
               NEW g \in Mem!Span(buf[b].place.off, buf[b].len)
        PROVE  slabs[buf[b].place.slab].mem[g] = b
    <2> PICK i : i = buf[b].place.slab
      OBVIOUS
    <2>1. buf[b]["place"] = buf[b].place /\ buf[b].len \in Nat /\ buf[b]["place"].off \in Nat
      BY <1>1, PlaceTypes
    <2>2. buf[b]["place"] = Mem!NoPlace \/ buf[b]["place"].slab \in 0 .. Len(slabs)
      BY <1>1 DEF Sound
    <2>3. i \in 1 .. Len(slabs)
      BY <1>1, <1>2, <2>1, <2>2 DEF Mem!NoPlace
    <2>4. g \in Nat /\ Inside(g, buf[b].place.off, buf[b].len)
      BY <1>2, <2>1 DEF Mem!Span, Inside
    <2>5. Written(slabs[i], i, buf)
      BY <2>3 DEF Sound, Tiled
    <2> QED
      BY <1>1, <2>4, <2>5 DEF Written
  <1>3. ASSUME NEW i \in 1 .. Len(slabs), NEW g \in Mem!Span(0, slabs[i].size), slabs[i].mem[g] # Mem!Zero
        PROVE  \E b \in Mem!Owner :
                 \/ Mem!InSlab(i, buf[b].place) /\ g \in Mem!Span(buf[b].place.off, buf[b].len)
                 \/ Mem!InSlab(i, buf[b].old) /\ g \in Mem!Span(buf[b].old.off, buf[b].old.cap)
    <2>1. Wiped(slabs[i], i, buf) /\ slabs[i] \in SlabSet
      BY DEF Sound, Tiled
    <2>2. slabs[i].size \in Nat
      BY <2>1 DEF SlabSet
    <2>3. g \in Nat /\ g < slabs[i].size
      BY <2>2 DEF Mem!Span
    <2>4. PICK b \in AnyBuf, w \in Ways : buf[b][w].slab = i /\ Inside(g, buf[b][w].off, Used(buf, b, w))
      BY <1>3, <2>1, <2>3 DEF Wiped
    <2>5. buf[b]["place"] = buf[b].place /\ buf[b]["old"] = buf[b].old /\ (w = "place" \/ w = "old")
          /\ buf[b][w].off \in Nat /\ Used(buf, b, w) \in Nat
      BY <1>1, PlaceTypes DEF Ways
    <2>6. g \in Mem!Span(buf[b][w].off, Used(buf, b, w))
      BY <2>3, <2>4, <2>5 DEF Mem!Span, Inside
    <2>7. w = "place" => Mem!InSlab(i, buf[b].place) /\ g \in Mem!Span(buf[b].place.off, buf[b].len)
      BY <2>4, <2>5, <2>6 DEF Used, Mem!InSlab
    <2>8. w = "old" => Mem!InSlab(i, buf[b].old) /\ g \in Mem!Span(buf[b].old.off, buf[b].old.cap)
      BY <2>4, <2>5, <2>6 DEF Used, Mem!InSlab
    <2> QED
      BY <1>1, <2>5, <2>7, <2>8
  <1> QED
    BY <1>2, <1>3 DEF Mem!BytesAreKept

\* What the arena promises follows.
LEMMA MemPromises == MemInv => Mem!ArenaIsSound
  <1> SUFFICES ASSUME MemInv PROVE Mem!ArenaIsSound
    OBVIOUS
  <1>1. /\ Sound(slabs, buf) /\ KeyAsTold(slabs, buf, backing)
        /\ counters.locked = BytesIn(slabs, LockedSlabs(slabs))
        /\ counters.unlocked = BytesIn(slabs, RefusedSlabs(slabs))
    BY DEF MemInv, Posted
  <1>2. Mem!RangesTile
    <2> SUFFICES ASSUME NEW i \in 1 .. Len(slabs), NEW g \in Mem!Span(0, slabs[i].size)
                 PROVE  Mem!Cardinality({f \in slabs[i].free : g \in Mem!Span(f[1], f[2])}
                          \cup {h \in UNION {{b} \X Mem!Places(b) : b \in Mem!Owner} :
                                  Mem!InSlab(i, h[2]) /\ g \in Mem!Span(h[2].off, h[2].cap)}) = 1
      BY DEF Mem!RangesTile
    <2>1. \A S : Mem!Cardinality(S) = Cardinality(S)
      BY DEF Mem!Cardinality, Cardinality
    <2> QED
      BY <1>1, <2>1, OneHolder
  <1>3. Mem!BytesAreKept
    BY <1>1, KeptAndWiped
  <1>4. Mem!PostureIsTrue
    BY <1>1 DEF Mem!PostureIsTrue, Mem!Bytes, BytesIn, LockedSlabs, RefusedSlabs, KeyAsTold
  <1> QED
    BY <1>2, <1>3, <1>4 DEF Mem!ArenaIsSound

\* Whatever is made, grown, cut, moved and dropped, and whatever the kernel refuses, every
\* granule of a slab is free or one buffer's, a buffer holds what was written to it, what no
\* buffer holds is wiped, and the posture report is true (secmem.rs).
THEOREM ArenaStaysSound == LibrarySpec => []ArenaIsSound
  <1>1. LibraryInit => MemInv
    BY MemStart DEF LibraryInit
  <1>2. MemInv /\ [LibraryNext]_libraryVars => MemInv'
    <2> SUFFICES ASSUME MemInv, [LibraryNext]_libraryVars PROVE MemInv'
      OBVIOUS
    <2>1. CASE Mem!Next
      BY <2>1, MemStep
    <2>2. CASE UNCHANGED memVars
      BY <2>2 DEF memVars, MemInv, KeyAsTold
    <2> QED
      BY <2>1, <2>2 DEF LibraryNext, libraryVars, memVars
  <1>3. MemInv => ArenaIsSound
    BY MemPromises DEF ArenaIsSound
  <1> QED
    BY <1>1, <1>2, <1>3, PTL DEF LibrarySpec

============================================================================
