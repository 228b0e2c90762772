-------------------------- MODULE TransplantProofs --------------------------
(***************************************************************************)
(* The properties of Transplant, for every set of binaries, libraries and  *)
(* patches.  IInv adds to them what the files are made of, and how far     *)
(* "all" has come.                                                         *)
(***************************************************************************)
EXTENDS Transplant, BinaryProofs

-----------------------------------------------------------------------------
(* The files, each by itself; up stands for the upstream slots.            *)

GraphOK(f) ==
    Present(f) =>
      /\ f = [whole |-> f.whole, g |-> f.g] /\ f.whole \in BOOLEAN
      /\ f.whole = f.g.marker /\ IsGraph(f.g)
IsProduct(p) ==
    /\ DOMAIN p = {"whole", "of", "made", "base", "mode", "tui", "slots"}
    /\ p.whole \in BOOLEAN
SlotsOK(s, up) ==
    /\ DOMAIN s = Assets
    /\ s = up \/ \E set \in Prebuilts : \A a \in Assets : s[a].lib = set[a]
    /\ \A a \in Assets :
         /\ s[a].pad \in Nat /\ HasExtent(s[a].lib)
         /\ s[a].pad >= up[a].pad
         /\ s[a].pad + s[a].lib.len = up[a].pad + up[a].lib.len
RawOK(p, up) == Present(p) => IsProduct(p) /\ p.slots = up /\ p.mode = "raw"
NativeOK(p, up) ==
    Present(p) => /\ IsProduct(p) /\ SlotsOK(p.slots, up)
                  /\ p.whole /\ p.mode # "raw" => p.of.whole

FilesOK ==
    /\ GraphOK(graph) /\ RawOK(native, src.slots)
    /\ NativeOK(revived, src.slots) /\ NativeOK(tui, src.slots)

-----------------------------------------------------------------------------
(* How far "all" has come.                                                 *)

Patches == {"assemble", "revive", "verify", "swap", "assets"}
Steps   == {"extract", "detect", "convert", "patch"} \cup Patches
Stage ==
    /\ at \in Steps => notes.call = calls /\ report.call < calls
    /\ at \in Steps \ {"extract"} => CanExtract(src)
    /\ at \in {"detect", "convert"} => graph = Whole(Upstream)
    /\ at \in Patches \cup {"patch"} =>
         (Layout(Upstream.off.mod_len) = RECORD_36 => Parses(Upstream))
    /\ at = "patch" => graph = Whole(Long(Upstream))
    /\ at \in Patches => graph = Whole(PatchGraph(Long(Upstream), cfg, Ver))
Made ==
    /\ (at \in {"verify", "swap", "assets"} /\ ~noRevive) =>
         Present(revived) /\ revived.whole /\ revived.made = calls /\ revived.of = graph
    /\ (at \in {"swap", "assets"} /\ ~noRevive /\ ~noExec) => Runs(revived)
    /\ (at = "assets" /\ ~noRevive /\ notes.tui \in {"pass", "unprobed"}) =>
         Present(tui) /\ tui.whole /\ tui.made = calls /\ tui.of = graph /\ tui.tui.lib = lib

IInv == TypeOK /\ FilesOK /\ Stage /\ Made /\ AllIsComplete

-----------------------------------------------------------------------------
(* Graphs.                                                                 *)

LEMMA UpstreamGraph ==
    ASSUME NEW b \in Binaries, CanExtract(b)
    PROVE  IsGraph(Extract(b)) /\ Extract(b).marker = TRUE /\ Extract(b).off = b.off
<1> USE TransplantAssumption
<1>1. /\ b.bytes \in Seq(Nat) /\ b.off \in OffsetsOf /\ b.marker = TRUE
      /\ b.off.mod_off + b.off.mod_len = b.off.argv0 /\ b.off.argv0 <= b.off.byte_count
      /\ b.off.byte_count <= Len(b.bytes)
      /\ b.end \in {"trailer", "section"}
      /\ b.end = "section" => b.off.byte_count = Len(b.bytes)
  BY DEF WellFormed, CanExtract
<1>2. /\ b.off.mod_off \in Nat /\ b.off.mod_len \in Nat /\ b.off.argv0 \in Nat
      /\ b.off.byte_count \in Nat
      /\ b.off = [byte_count |-> b.off.byte_count, mod_off |-> b.off.mod_off,
                  mod_len |-> b.off.mod_len, argv0 |-> b.off.argv0]
  BY <1>1 DEF OffsetsOf
<1>3. CASE b.end = "section"
  <2>1. Extract(b) = [bytes |-> b.bytes, off |-> b.off, marker |-> b.marker]
    BY <1>3 DEF Extract, ExtractSection
  <2> DEFINE e == Extract(b)
  <2>2. e.bytes = b.bytes /\ e.off = b.off /\ e.marker = TRUE
        /\ e = [bytes |-> e.bytes, off |-> e.off, marker |-> e.marker]
    BY <2>1, <1>1
  <2> HIDE DEF e
  <2>3. IsGraph(e)
    BY <1>1, <1>2, <1>3, <2>2 DEF IsGraph, WellFormed
  <2> QED  BY <2>2, <2>3 DEF e
<1>4. CASE b.end = "trailer"
  <2> DEFINE w == b.bytes
             h == GraphStart(b)
             n == b.off.byte_count
             t == SubSeq(w, h + 1, Len(w))
             e == Extract(b)
  <2>1. w \in Seq(Nat) /\ h \in Nat /\ n \in Nat /\ h + n = Len(w) /\ n <= n
    BY <1>1, <1>2, LenProperties DEF GraphStart
  <2>2. e = [bytes |-> t, off |-> b.off, marker |-> b.marker]
    BY <1>4 DEF Extract, ExtractTrailer
  <2>3. t \in Seq(Nat) /\ Len(t) = n
    <3> HIDE DEF w, h, n
    <3> QED  BY ONLY <2>1, TailParts DEF t
  <2> HIDE DEF t, e
  <2>4. e.bytes = t /\ e.off = b.off /\ e.marker = TRUE
        /\ e = [bytes |-> e.bytes, off |-> e.off, marker |-> e.marker]
    BY <2>2, <1>1
  <2>5. IsGraph(e)
    BY <1>1, <1>2, <2>3, <2>4 DEF IsGraph, WellFormed
  <2> QED  BY <2>4, <2>5 DEF e
<1> QED  BY <1>1, <1>3, <1>4

LEMMA LongGraph ==
    ASSUME NEW g, IsGraph(g), g.marker = TRUE,
           Layout(g.off.mod_len) = RECORD_36 => Parses(g)
    PROVE  IsGraph(Long(g)) /\ Long(g).marker = TRUE
<1>1. CASE Layout(g.off.mod_len) = RECORD_36
  <2>1. CanConvert(g, RECORD_52) /\ RECORD_52 \in Sizes
    BY <1>1 DEF CanConvert, RECORD_36, RECORD_52, Sizes
  <2> QED  BY <1>1, <2>1, ConvertFaithful DEF Long
<1>2. CASE Layout(g.off.mod_len) # RECORD_36
  BY <1>2 DEF Long
<1> QED  BY <1>1, <1>2

LEMMA ConfigTexts ==
    ASSUME NEW c \in Configs, NEW v  PROVE Texts(Selected(c, v))
BY TransplantAssumption DEF Texts, Selected

LEMMA PatchedGraph ==
    ASSUME NEW g, IsGraph(g), NEW c \in Configs
    PROVE  LET p == PatchGraph(g, c, Ver)
           IN  /\ IsGraph(p) /\ p.off = g.off /\ p.marker = g.marker
               /\ Records(p) = Records(g) /\ Argv(p) = Argv(g)
<1>1. CASE c.kind = "absent"
  BY <1>1 DEF PatchGraph
<1>2. CASE c.kind # "absent"
  <2>1. PatchGraph(g, c, Ver) = Patched(g, Selected(c, Ver))
    BY <1>2 DEF PatchGraph
  <2> QED  BY <2>1, ConfigTexts, PatchKeeps
<1> QED  BY <1>1, <1>2

LEMMA WholeGraph ==
    ASSUME NEW g, IsGraph(g), g.marker = TRUE  PROVE GraphOK(Whole(g))
BY DEF GraphOK, Whole

LEMMA CutGraph ==
    ASSUME NEW g, IsGraph(g)  PROVE GraphOK(Cut(g))
<1> DEFINE c == [bytes |-> g.bytes, off |-> g.off, marker |-> FALSE]
<1>2. c.bytes = g.bytes /\ c.off = g.off /\ c.marker = FALSE
      /\ c = [bytes |-> c.bytes, off |-> c.off, marker |-> c.marker]
  OBVIOUS
<1> HIDE DEF c
<1>3. IsGraph(c)
  BY <1>2 DEF IsGraph, WellFormed
<1>4. Cut(g) = [whole |-> FALSE, g |-> c]
  BY DEF Cut, c
<1>5. Cut(g).whole = FALSE /\ Cut(g).g = c
  BY <1>4
<1>6. Cut(g) = [whole |-> Cut(g).whole, g |-> Cut(g).g]
  BY <1>4, <1>5
<1> QED  BY <1>2, <1>3, <1>5, <1>6 DEF GraphOK

-----------------------------------------------------------------------------
(* Products.                                                               *)

LEMMA CutIs ==
    ASSUME NEW p, NEW up, IsProduct(p)
    PROVE  /\ IsProduct(CutProduct(p)) /\ CutProduct(p).whole = FALSE
           /\ CutProduct(p).slots = p.slots /\ CutProduct(p).mode = p.mode
           /\ SlotsOK(p.slots, up) => NativeOK(CutProduct(p), up)
           /\ (p.slots = up /\ p.mode = "raw") => RawOK(CutProduct(p), up)
<1> DEFINE c == CutProduct(p)
<1>1. DOMAIN c = DOMAIN p /\ c.whole = FALSE /\ c.slots = p.slots /\ c.mode = p.mode
  BY DEF CutProduct, IsProduct
<1> HIDE DEF c
<1>2. IsProduct(c) /\ c.whole = FALSE /\ c.slots = p.slots /\ c.mode = p.mode
  BY <1>1 DEF IsProduct
<1> QED  BY <1>2 DEF NativeOK, RawOK, c

LEMMA AssembledIs ==
    ASSUME TypeOK, NEW b, NEW m
    PROVE  LET p == Assembled(b, m)
           IN  /\ IsProduct(p) /\ p.slots = src.slots /\ p.mode = "raw"
               /\ RawOK(p, src.slots) /\ RawOK(CutProduct(p), src.slots)
<1> DEFINE p == Assembled(b, m)
<1>1. IsProduct(p) /\ p.slots = src.slots /\ p.mode = "raw"
  BY DEF Assembled, IsProduct
<1> HIDE DEF p
<1>2. IsProduct(p) /\ p.slots = src.slots /\ p.mode = "raw"
  BY <1>1
<1>3. RawOK(CutProduct(p), src.slots)
  BY <1>2, CutIs
<1> QED  BY <1>2, <1>3 DEF RawOK, p

LEMMA UpstreamSlots ==
    ASSUME TypeOK  PROVE SlotsOK(src.slots, src.slots)
<1>1. src \in Binaries
  BY DEF TypeOK
<1> QED  BY <1>1, TransplantAssumption DEF SlotsOK

LEMMA GraftedIs ==
    ASSUME TypeOK, GraphOK(graph), Revives(graph), NEW b, NEW m
    PROVE  LET p == Grafted(b, m)
           IN  /\ IsProduct(p) /\ p.whole = TRUE /\ p.made = m /\ p.of = graph
               /\ NativeOK(p, src.slots) /\ NativeOK(CutProduct(p), src.slots)
<1> DEFINE p == Grafted(b, m)
<1>1. /\ IsProduct(p) /\ p.whole = TRUE /\ p.made = m /\ p.of = graph
      /\ p.slots = src.slots
  BY DEF Grafted, IsProduct
<1>2. graph.whole = TRUE
  <2>1. Present(graph) /\ graph.g.marker /\ graph.whole \in BOOLEAN
        /\ graph.whole = graph.g.marker
    BY DEF Revives, Payload, PayloadEnds, GraphOK
  <2> QED  BY <2>1
<1> HIDE DEF p
<1>3. /\ IsProduct(p) /\ p.whole = TRUE /\ p.made = m /\ p.of = graph
      /\ p.slots = src.slots
  BY <1>1
<1>4. NativeOK(p, src.slots)
  BY <1>2, <1>3, UpstreamSlots DEF NativeOK
<1>5. NativeOK(CutProduct(p), src.slots)
  BY <1>3, CutIs, UpstreamSlots
<1> QED  BY <1>3, <1>4, <1>5 DEF p

\* What the swap of libopentui makes of a product.
LEMMA SwappedIs ==
    ASSUME TypeOK, NEW q, Present(q), NativeOK(q, src.slots) \/ RawOK(q, src.slots),
           NEW m
    PROVE  LET p == WithLib(q, m)
           IN  /\ IsProduct(p) /\ p.whole = q.whole /\ p.made = m /\ p.of = q.of
               /\ p.tui = Put(q.tui, lib)
               /\ NativeOK(p, src.slots) /\ NativeOK(CutProduct(p), src.slots)
<1> DEFINE l == Put(q.tui, lib)
           p == WithLib(q, m)
<1>1. IsProduct(q) /\ SlotsOK(q.slots, src.slots)
      /\ (q.whole /\ q.mode # "raw" => q.of.whole)
  BY UpstreamSlots DEF NativeOK, RawOK
<1>2. /\ p.whole = q.whole /\ p.of = q.of /\ p.made = m /\ p.mode = q.mode
      /\ p.slots = q.slots /\ p.tui = l /\ DOMAIN p = DOMAIN q
  BY <1>1 DEF IsProduct, WithLib
<1> HIDE DEF p, l
<1>3. /\ p.whole = q.whole /\ p.of = q.of /\ p.made = m /\ p.mode = q.mode
      /\ p.slots = q.slots /\ p.tui = l /\ IsProduct(p)
  BY <1>1, <1>2 DEF IsProduct
<1>4. NativeOK(p, src.slots)
  BY <1>1, <1>3 DEF NativeOK
<1>5. NativeOK(CutProduct(p), src.slots)
  BY <1>1, <1>3, CutIs
<1> QED  BY <1>3, <1>4, <1>5 DEF p, l

\* What the swap of the assets makes of the slots: all are of one set.
LEMMA FilledSlots ==
    ASSUME NEW s, NEW up, SlotsOK(s, up), SlotsOK(up, up), NEW set \in Prebuilts,
           CanSwapAll(s, set, TRUE, Prefixed)
    PROVE  /\ SlotsOK(SwappedAll(s, set, Prefixed), up)
           /\ \A a \in Assets : SwappedAll(s, set, Prefixed)[a].lib = set[a]
<1> DEFINE n == SwappedAll(s, set, Prefixed)
<1>1. \A a \in Assets : s[a] # NoSlot /\ CanSwap(s[a], set[a], Prefixed)
  BY DEF CanSwapAll, SlotsOK
<1>2. DOMAIN n = Assets /\ \A a \in Assets : n[a] = Put(s[a], set[a])
  BY <1>1 DEF SwappedAll, SlotsOK
<1>3. \A a \in Assets : n[a].lib = set[a]
                        /\ n[a].pad = s[a].pad + s[a].lib.len - set[a].len
  BY <1>2 DEF Put
<1> HIDE DEF n
<1>4. ASSUME NEW a \in Assets
      PROVE  /\ n[a].pad \in Nat /\ HasExtent(n[a].lib) /\ n[a].pad >= up[a].pad
             /\ n[a].pad + n[a].lib.len = up[a].pad + up[a].lib.len
  <2>1. s[a].lib = set[a] \/ set[a].len <= s[a].lib.size
    BY <1>1 DEF CanSwap
  <2>2. /\ s[a].pad \in Nat /\ HasExtent(s[a].lib) /\ s[a].pad >= up[a].pad
        /\ s[a].pad + s[a].lib.len = up[a].pad + up[a].lib.len
    BY DEF SlotsOK
  <2>3. HasExtent(set[a]) /\ set[a].len \in Nat
    BY TransplantAssumption DEF HasExtent
  <2>4. s[a].lib.len \in Nat /\ set[a].len <= s[a].lib.len
    BY <2>1, <2>2, <2>3 DEF HasExtent
  <2>5. n[a].lib = set[a] /\ n[a].pad = s[a].pad + (s[a].lib.len - set[a].len)
    BY <1>3, <2>2, <2>3, <2>4
  <2> DEFINE x == s[a].pad
             y == s[a].lib.len
             z == set[a].len
             u == up[a].pad
             t == n[a].pad
  <2>6. x \in Nat /\ y \in Nat /\ z \in Nat /\ z <= y /\ t = x + (y - z)
    BY <2>2, <2>3, <2>4, <2>5
  <2> HIDE DEF x, y, z, t
  <2>7. t \in Nat /\ t >= x /\ t + z = x + y
    BY <2>6
  <2>8. t >= u
    <3>1. u \in Nat /\ x >= u
      BY <2>2 DEF x, SlotsOK
    <3> HIDE DEF u
    <3> QED  BY <2>6, <2>7, <3>1
  <2> QED  BY <2>2, <2>3, <2>5, <2>7, <2>8 DEF x, y, z, t, u
<1>5. \E q \in Prebuilts : \A a \in Assets : n[a].lib = q[a]
  BY <1>3
<1>6. SlotsOK(n, up)
  BY <1>2, <1>4, <1>5 DEF SlotsOK
<1> QED  BY <1>3, <1>6 DEF n

LEMMA FilledIs ==
    ASSUME TypeOK, NEW p, Present(p), NativeOK(p, src.slots), prebuilt # NoDir,
           CanSwapAll(p.slots, prebuilt, TRUE, Prefixed)
    PROVE  /\ IsProduct(Filled(p)) /\ NativeOK(Filled(p), src.slots)
           /\ NativeOK(CutProduct(Filled(p)), src.slots)
           /\ \A a \in Assets : Filled(p).slots[a].lib = prebuilt[a]
           /\ Filled(p).whole = p.whole /\ Filled(p).of = p.of
           /\ Filled(p).made = p.made /\ Filled(p).base = p.base
           /\ Filled(p).mode = p.mode /\ Filled(p).tui = p.tui
<1> DEFINE n == SwappedAll(p.slots, prebuilt, Prefixed)
           f == Filled(p)
<1>1. prebuilt \in Prebuilts
  BY DEF TypeOK
<1>2. IsProduct(p) /\ SlotsOK(p.slots, src.slots) /\ (p.whole /\ p.mode # "raw" => p.of.whole)
  BY DEF NativeOK
<1>3. SlotsOK(n, src.slots) /\ \A a \in Assets : n[a].lib = prebuilt[a]
  BY <1>1, <1>2, FilledSlots, UpstreamSlots
<1>4. /\ f.whole = p.whole /\ f.of = p.of /\ f.made = p.made /\ f.base = p.base
      /\ f.mode = p.mode /\ f.tui = p.tui /\ f.slots = n /\ DOMAIN f = DOMAIN p
  BY <1>2 DEF Filled, IsProduct
<1> HIDE DEF f, n
<1>5. /\ f.whole = p.whole /\ f.of = p.of /\ f.made = p.made /\ f.base = p.base
      /\ f.mode = p.mode /\ f.tui = p.tui /\ f.slots = n /\ IsProduct(f)
  BY <1>2, <1>4 DEF IsProduct
<1>6. NativeOK(f, src.slots)
  BY <1>2, <1>3, <1>5 DEF NativeOK
<1>7. NativeOK(CutProduct(f), src.slots)
  BY <1>3, <1>5, CutIs
<1> QED  BY <1>3, <1>5, <1>6, <1>7 DEF f

-----------------------------------------------------------------------------
(* The files in every step.                                                *)

\* While "all" has a graph at hand it is whole.
LEMMA BusyGraph ==
    ASSUME TypeOK, Stage, at \in Steps \ {"extract"}
    PROVE  /\ Present(graph) /\ graph.whole = TRUE /\ graph.g.marker = TRUE
           /\ IsGraph(graph.g)
<1>1. IsGraph(Upstream) /\ Upstream.marker = TRUE
  BY UpstreamGraph DEF Stage, TypeOK, Upstream
<1>2. cfg \in Configs
  BY DEF TypeOK
<1>3. \E h : graph = Whole(h) /\ IsGraph(h) /\ h.marker = TRUE
  <2>1. CASE at \in {"detect", "convert"}
    BY <1>1, <2>1 DEF Stage
  <2>2. CASE at = "patch"
    BY <1>1, <2>2, LongGraph DEF Stage
  <2>3. CASE at \in Patches
    <3>1. IsGraph(Long(Upstream)) /\ Long(Upstream).marker = TRUE
      BY <1>1, <2>3, LongGraph DEF Stage
    <3> QED  BY <1>2, <2>3, <3>1, PatchedGraph DEF Stage
  <2> QED  BY <2>1, <2>2, <2>3 DEF Steps
<1>4. PICK h : graph = Whole(h) /\ IsGraph(h) /\ h.marker = TRUE
  BY <1>3
<1>5. graph.whole = TRUE /\ graph.g = h
  BY <1>4 DEF Whole
<1> QED  BY <1>4, <1>5 DEF Present, Absent

LEMMA SourceOK ==
    ASSUME FilesOK, Present(SwapSource)
    PROVE  NativeOK(SwapSource, src.slots) \/ RawOK(SwapSource, src.slots)
BY DEF FilesOK, SwapSource

LEMMA TargetOK ==
    ASSUME FilesOK  PROVE NativeOK(Target, src.slots)
BY DEF FilesOK, Target

LEMMA RewrittenOK ==
    ASSUME FilesOK, NEW p, NativeOK(p, src.slots), Rewritten(p), UNCHANGED <<src, graph>>
    PROVE  FilesOK'
BY DEF FilesOK, Rewritten

LEMMA InitFiles == Init => FilesOK
BY DEF Init, FilesOK, GraphOK, RawOK, NativeOK, Present

LEMMA CutFiles ==
    ASSUME TypeOK, FilesOK, Stage, at # "idle", CutOutput, UNCHANGED src
    PROVE  FilesOK'
<1> USE DEF FilesOK
<1>1. CASE UNCHANGED files
  BY <1>1 DEF files
<1>2. CASE /\ \/ at = "extract" /\ CanExtract(src) /\ graph' = Cut(Extract(src))
              \/ /\ at = "convert" /\ CanConvert(graph.g, RECORD_52)
                 /\ graph' = Cut(Convert(graph.g, RECORD_52))
              \/ /\ at = "patch" /\ graph' = Cut(PatchGraph(graph.g, cfg, Ver))
           /\ UNCHANGED <<native, revived, tui>>
  <2>1. CASE at = "extract" /\ CanExtract(src) /\ graph' = Cut(Extract(src))
    <3>1. IsGraph(Extract(src))
      BY <2>1, UpstreamGraph DEF TypeOK
    <3> QED  BY <1>2, <2>1, <3>1, CutGraph
  <2>2. CASE /\ at = "convert" /\ CanConvert(graph.g, RECORD_52)
             /\ graph' = Cut(Convert(graph.g, RECORD_52))
    <3>1. IsGraph(graph.g) /\ RECORD_52 \in Sizes
      BY <2>2, BusyGraph DEF Steps, Sizes
    <3>2. IsGraph(Convert(graph.g, RECORD_52))
      BY <2>2, <3>1, ConvertFaithful
    <3> QED  BY <1>2, <2>2, <3>2, CutGraph
  <2>3. CASE at = "patch" /\ graph' = Cut(PatchGraph(graph.g, cfg, Ver))
    <3>1. IsGraph(graph.g) /\ cfg \in Configs
      BY <2>3, BusyGraph DEF Steps, TypeOK
    <3>2. IsGraph(PatchGraph(graph.g, cfg, Ver))
      BY <3>1, PatchedGraph
    <3> QED  BY <1>2, <2>3, <3>2, CutGraph
  <2> QED  BY <1>2, <2>1, <2>2, <2>3
<1>3. ASSUME NEW b \in BasesFor(src.end), native' = CutProduct(Assembled(b, calls)),
             UNCHANGED <<graph, revived, tui>>
      PROVE  FilesOK'
  BY <1>3, AssembledIs
<1>4. ASSUME Revives(graph), NEW b,
             revived' = CutProduct(Grafted(b, calls)), UNCHANGED <<graph, native, tui>>
      PROVE  FilesOK'
  BY <1>4, GraftedIs
<1>5. CASE /\ Present(SwapSource) /\ tui' = CutProduct(Swapped)
           /\ UNCHANGED <<graph, native, revived>>
  BY <1>5, SourceOK, SwappedIs DEF Swapped
<1>6. ASSUME prebuilt # NoDir, Present(Target), Fills, UNCHANGED graph,
             NEW p \in {Filled(Target), CutProduct(Filled(Target))}, Rewritten(p)
      PROVE  FilesOK'
  <2>1. NativeOK(Filled(Target), src.slots) /\ NativeOK(CutProduct(Filled(Target)), src.slots)
    BY <1>6, TargetOK, FilledIs DEF Fills
  <2>2. NativeOK(p, src.slots)
    BY <1>6, <2>1
  <2> QED  BY <1>6, <2>2, RewrittenOK
<1> QED  BY <1>1, <1>2, <1>3, <1>4, <1>5, <1>6 DEF CutOutput

LEMMA CommandFiles ==
    ASSUME TypeOK, FilesOK, Command  PROVE FilesOK'
<1> USE DEF FilesOK
<1>1. UNCHANGED src
  BY DEF Command, Call, CmdExtract, CmdConvert, CmdPatch, CmdAssemble, CmdRevive,
         CmdSwap, env
<1>2. CASE CmdExtract
  <2>1. IsGraph(Extract(src)) /\ Extract(src).marker = TRUE
    BY <1>2, UpstreamGraph DEF CmdExtract, TypeOK
  <2> QED  BY <1>1, <1>2, <2>1, WholeGraph, CutGraph DEF CmdExtract
<1>3. ASSUME NEW to \in Sizes, CmdConvert(to)  PROVE FilesOK'
  <2>1. IsGraph(graph.g) /\ CanConvert(graph.g, to)
    BY <1>3 DEF CmdConvert, GraphOK
  <2>2. IsGraph(Convert(graph.g, to)) /\ Convert(graph.g, to).marker = TRUE
    BY <2>1, ConvertFaithful
  <2> QED  BY <1>1, <1>3, <2>2, WholeGraph, CutGraph DEF CmdConvert
<1>4. CASE CmdPatch
  <2> DEFINE new == PatchGraph(graph.g, cfg, Ver)
  <2>1. IsGraph(new) /\ new.marker = graph.g.marker /\ Present(graph)
        /\ graph.whole \in BOOLEAN /\ graph.whole = graph.g.marker
    BY <1>4, PatchedGraph DEF CmdPatch, GraphOK, TypeOK
  <2>2. graph' = [whole |-> graph.whole, g |-> new] \/ graph' = Cut(new)
    BY <1>4 DEF CmdPatch
  <2> HIDE DEF new
  <2>3. GraphOK([whole |-> graph.whole, g |-> new])
    BY <2>1 DEF GraphOK
  <2>4. GraphOK(graph')
    BY <2>1, <2>2, <2>3, CutGraph
  <2>5. UNCHANGED <<native, revived, tui>>
    BY <1>4 DEF CmdPatch
  <2> QED  BY <1>1, <2>4, <2>5
<1>5. CASE CmdAssemble
  BY <1>1, <1>5, AssembledIs DEF CmdAssemble
<1>6. CASE CmdRevive
  BY <1>1, <1>6, GraftedIs DEF CmdRevive
<1>7. CASE CmdSwap
  BY <1>1, <1>7, SwappedIs DEF CmdSwap
<1> QED  BY <1>2, <1>3, <1>4, <1>5, <1>6, <1>7 DEF Command, Sizes

LEMMA FilesStep ==
    ASSUME TypeOK, FilesOK, Stage, [Next]_vars  PROVE FilesOK'
<1> USE DEF FilesOK
<1>1. ASSUME NEW nr \in BOOLEAN, NEW ne \in BOOLEAN, Start(nr, ne)  PROVE FilesOK'
  BY <1>1 DEF Start, files, env
<1>2. CASE ExtractStep
  <2>1. IsGraph(Extract(src)) /\ Extract(src).marker = TRUE
    BY <1>2, UpstreamGraph DEF ExtractStep, TypeOK
  <2> QED  BY <1>2, <2>1, WholeGraph DEF ExtractStep, Go, env
<1>3. CASE DetectStep
  BY <1>3 DEF DetectStep, Go, env, files
<1>4. CASE ConvertStep
  <2>1. IsGraph(Long(graph.g)) /\ Long(graph.g).marker = TRUE
    BY <1>4, BusyGraph, LongGraph DEF ConvertStep, Steps
  <2> QED  BY <1>4, <2>1, WholeGraph DEF ConvertStep, Go, env
<1>5. CASE PatchStep
  <2>1. IsGraph(PatchGraph(graph.g, cfg, Ver)) /\ PatchGraph(graph.g, cfg, Ver).marker = TRUE
    BY <1>5, BusyGraph, PatchedGraph DEF PatchStep, Steps, TypeOK
  <2> QED  BY <1>5, <2>1, WholeGraph DEF PatchStep, Go, env
<1>6. CASE AssembleStep
  BY <1>6, AssembledIs DEF AssembleStep, Go, env
<1>7. CASE ReviveStep
  BY <1>7, GraftedIs DEF ReviveStep, Go, env
<1>8. CASE VerifyStep
  BY <1>8 DEF VerifyStep, Go, env, files
<1>9. CASE SwapStep
  <2>1. UNCHANGED <<src, graph, native, revived>>
    BY <1>9 DEF SwapStep, Go, env
  <2>2. UNCHANGED tui \/ (Present(SwapSource) /\ tui' \in {Swapped, CutProduct(Swapped)})
    BY <1>9 DEF SwapStep
  <2>3. CASE Present(SwapSource) /\ tui' \in {Swapped, CutProduct(Swapped)}
    BY <2>1, <2>3, SourceOK, SwappedIs DEF Swapped
  <2> QED  BY <2>1, <2>2, <2>3
<1>10. CASE AssetsStep
  <2>1. UNCHANGED <<src, graph>>
    BY <1>10 DEF AssetsStep, End, env
  <2>2. \/ UNCHANGED <<native, revived, tui>>
        \/ /\ prebuilt # NoDir /\ Present(Target) /\ Fills
           /\ Rewritten(Filled(Target)) \/ Rewritten(CutProduct(Filled(Target)))
    BY <1>10 DEF AssetsStep
  <2>3. CASE /\ prebuilt # NoDir /\ Present(Target) /\ Fills
             /\ Rewritten(Filled(Target)) \/ Rewritten(CutProduct(Filled(Target)))
    <3>1. NativeOK(Filled(Target), src.slots) /\ NativeOK(CutProduct(Filled(Target)), src.slots)
      BY <2>3, TargetOK, FilledIs DEF Fills
    <3> QED  BY <2>1, <2>3, <3>1, RewrittenOK
  <2> QED  BY <2>1, <2>2, <2>3
<1>11. CASE Break
  BY <1>11, CutFiles DEF Break, End, env
<1>12. CASE Command
  BY <1>12, CommandFiles
<1>13. CASE Edit
  BY <1>13 DEF Edit, files
<1>14. CASE UNCHANGED vars
  BY <1>14 DEF vars, env, files
<1> QED  BY <1>1, <1>2, <1>3, <1>4, <1>5, <1>6, <1>7, <1>8, <1>9, <1>10, <1>11,
            <1>12, <1>13, <1>14 DEF Next, All

-----------------------------------------------------------------------------
(* What "all" makes of the upstream graph.                                 *)

LEMMA UpstreamLayout ==
    ASSUME TypeOK, CanExtract(src), ~Ambiguous
    PROVE  /\ Size \in Sizes /\ Upstream.off.mod_len \in Nat
           /\ Layout(Upstream.off.mod_len) = Size
<1> DEFINE m == Upstream.off.mod_len
<1>0. src \in Binaries
  BY DEF TypeOK
<1>1. /\ m \in Nat /\ src.short \in BOOLEAN
      /\ m % (IF src.short THEN RECORD_36 ELSE RECORD_52) = 0
  <2>1. Upstream.off = src.off /\ IsGraph(Upstream)
    BY <1>0, UpstreamGraph DEF Upstream
  <2>2. m = src.off.mod_len
    BY <2>1
  <2>3. m \in Nat
    BY <2>1 DEF IsGraph, WellFormed, OffsetsOf
  <2> HIDE DEF m
  <2> QED  BY <1>0, <2>2, <2>3, TransplantAssumption
<1>2. src.short => m % RECORD_52 # 0
  BY DEF Ambiguous
<1> HIDE DEF m
<1>3. Size \in Sizes /\ Layout(m) = Size
  BY <1>1, <1>2 DEF Size, Sizes, Layout, RECORD_36, RECORD_52
<1> QED  BY <1>1, <1>3 DEF m

\* Patched, then compared with the upstream graph: u is the upstream graph, l
\* the long one, s the record size of u.
LEMMA LongFaithful ==
    ASSUME NEW u, IsGraph(u), u.marker = TRUE, NEW Q, Texts(Q),
           Layout(u.off.mod_len) # 0,
           Layout(u.off.mod_len) = RECORD_36 => Parses(u)
    PROVE  LET g == Patched(Long(u), Q)
               s == Layout(u.off.mod_len)
           IN  /\ Strings(g) = Strings(Patched(u, Q)) /\ Argv(g) = Argv(u)
               /\ g.off.mod_len * s = u.off.mod_len * RECORD_52
               /\ \A k \in 0 .. (g.off.mod_len \div RECORD_52) - 1 :
                    /\ \A j \in 1..8 : Records(g)[RECORD_52 * k + j] = Records(u)[s * k + j]
                    /\ Records(g)[RECORD_52 * k + RECORD_52] = Records(u)[s * k + s]
<1> DEFINE l == Long(u)
           g == Patched(l, Q)
           s == Layout(u.off.mod_len)
           n == Count(u.off)
<1>1. s \in Sizes /\ n \in Nat /\ u.off.mod_len = s * n /\ u.off.mod_len \in Nat
  BY LayoutCount DEF IsGraph, WellFormed, OffsetsOf
<1>2. IsGraph(l)
  BY LongGraph
<1>3. Records(g) = Records(l) /\ Argv(g) = Argv(l) /\ g.off = l.off
  BY <1>2, PatchKeeps
<1>4. CASE s = RECORD_52
  <2>1. l = u
    BY <1>4 DEF Long, RECORD_36, RECORD_52
  <2> QED  BY <1>3, <1>4, <2>1
<1>5. CASE s = RECORD_36
  <2>1. l = Convert(u, RECORD_52) /\ CanConvert(u, RECORD_52) /\ RECORD_52 \in Sizes
    BY <1>5 DEF Long, CanConvert, Sizes, RECORD_36, RECORD_52
  <2>2. /\ Argv(l) = Argv(u) /\ l.off.mod_len = RECORD_52 * n
        /\ \A k \in 0 .. n - 1 :
             /\ \A j \in 1..8 : Records(l)[RECORD_52 * k + j] = Records(u)[s * k + j]
             /\ Records(l)[RECORD_52 * k + RECORD_52] = Records(u)[s * k + s]
    <3> DEFINE c == Convert(u, RECORD_52)
    <3>1. /\ Argv(c) = Argv(u) /\ c.off.mod_len = RECORD_52 * n
          /\ \A k \in 0 .. n - 1 :
               /\ \A j \in 1..8 : Records(c)[RECORD_52 * k + j] = Records(u)[s * k + j]
               /\ Records(c)[RECORD_52 * k + RECORD_52] = Records(u)[s * k + s]
      BY <2>1, ConvertFaithful
    <3> HIDE DEF c
    <3>2. l = c
      BY <2>1 DEF c
    <3> HIDE DEF l, s, n
    <3> QED  BY <3>1, <3>2
  <2>3. Strings(g) = Strings(Patched(u, Q))
    <3>1. IsGraph(Patched(u, Q)) /\ CanConvert(Patched(u, Q), RECORD_52)
      BY <2>1, PatchKeeps DEF CanConvert, Parses
    <3>2. g = Convert(Patched(u, Q), RECORD_52)
      BY <2>1, PatchThenConvert
    <3> QED  BY <2>1, <3>1, <3>2, ConvertFaithful
  <2>4. g.off.mod_len = 13 * n /\ u.off.mod_len = 9 * n /\ s = 9
    BY <1>1, <1>3, <1>5, <2>2 DEF RECORD_36, RECORD_52
  <2> DEFINE x == g.off.mod_len
             y == u.off.mod_len
  <2>5. x = 13 * n /\ y = 9 * n
    BY <2>4
  <2> HIDE DEF x, y, n
  <2>6. x * 9 = y * 13 /\ x \div 13 = n
    BY <1>1, <2>5, SMT
  <2> USE DEF x, y
  <2>7. g.off.mod_len * s = u.off.mod_len * RECORD_52 /\ g.off.mod_len \div RECORD_52 = n
    BY <2>4, <2>6 DEF RECORD_52
  <2>8. RECORD_52 * n = g.off.mod_len
    BY <2>4 DEF RECORD_52
  <2> HIDE DEF l, g, s
  <2>9. /\ Argv(g) = Argv(u)
        /\ \A k \in 0 .. (g.off.mod_len \div RECORD_52) - 1 :
             /\ \A j \in 1..8 : Records(g)[RECORD_52 * k + j] = Records(u)[s * k + j]
             /\ Records(g)[RECORD_52 * k + RECORD_52] = Records(u)[s * k + s]
    BY <1>3, <2>2, <2>7
  <2>10. g = Patched(Long(u), Q) /\ s = Layout(u.off.mod_len)
    BY DEF g, l, s
  <2> QED  BY <2>3, <2>7, <2>9, <2>10
<1> QED  BY <1>1, <1>4, <1>5 DEF Sizes

LEMMA FaithfulEnd ==
    ASSUME TypeOK, Stage, at \in Patches, ~Ambiguous
    PROVE  Faithful(graph.g)
<1>1. /\ CanExtract(src)
      /\ Layout(Upstream.off.mod_len) = RECORD_36 => Parses(Upstream)
      /\ graph = Whole(PatchGraph(Long(Upstream), cfg, Ver))
  BY DEF Stage, Steps, Patches
<1>2. IsGraph(Upstream) /\ Upstream.marker = TRUE
  <2>1. src \in Binaries
    BY DEF TypeOK
  <2> QED  BY <1>1, <2>1, UpstreamGraph DEF Upstream
<1>3. Layout(Upstream.off.mod_len) = Size /\ Size # 0
  <2>1. Layout(Upstream.off.mod_len) = Size /\ Size \in Sizes
    BY <1>1, UpstreamLayout
  <2> HIDE DEF Size
  <2> QED  BY <2>1 DEF Sizes, RECORD_36, RECORD_52
<1>4. IsGraph(Long(Upstream))
  <2> HIDE DEF Upstream
  <2> QED  BY <1>1, <1>2, LongGraph
<1>5. Texts(P)
  BY ConfigTexts DEF P, Texts, TypeOK
<1>6. PatchGraph(Long(Upstream), cfg, Ver) = Patched(Long(Upstream), P)
  BY <1>4, NoPatches DEF PatchGraph, P
<1>7. graph.g = Patched(Long(Upstream), P)
  BY <1>1, <1>6 DEF Whole
<1> DEFINE u == Upstream
<1> HIDE DEF u, P, Size
<1>8. /\ IsGraph(u) /\ u.marker = TRUE /\ Layout(u.off.mod_len) # 0
      /\ Layout(u.off.mod_len) = RECORD_36 => Parses(u)
      /\ Layout(u.off.mod_len) = Size
  BY <1>1, <1>2, <1>3 DEF u
<1> DEFINE g == Patched(Long(u), P)
<1>9. /\ Strings(g) = Strings(Patched(u, P)) /\ Argv(g) = Argv(u)
      /\ g.off.mod_len * Size = u.off.mod_len * RECORD_52
      /\ \A k \in 0 .. (g.off.mod_len \div RECORD_52) - 1 :
           /\ \A j \in 1..8 : Records(g)[RECORD_52 * k + j] = Records(u)[Size * k + j]
           /\ Records(g)[RECORD_52 * k + RECORD_52] = Records(u)[Size * k + Size]
  BY ONLY <1>5, <1>8, LongFaithful
<1> QED  BY <1>7, <1>9 DEF Faithful, u

-----------------------------------------------------------------------------
(* Types.                                                                  *)

Reports == [call: 0..calls, tui: {"none", "absent", "pass", "unprobed", "fail"},
            assets: {"none", "skipped", "ok", "failed"}]
Typed ==
    /\ src \in Binaries /\ lib \in Libs \cup {NoLib} /\ cfg \in Configs
    /\ prebuilt \in Prebuilts \cup {NoDir}
    /\ calls \in 0..MaxCalls /\ edits \in 0..MaxEdits
    /\ at \in {"idle"} \cup Steps
    /\ noRevive \in BOOLEAN /\ noExec \in BOOLEAN
    /\ base \in {NoBase} \cup BasesFor(src.end)
    /\ verdict \in {"none", "ok", "failed"}
    /\ report \in Reports /\ notes \in Reports

LEMMA TypeOfParts ==
    /\ TypeOK => Typed
    /\ Typed /\ GraphOK(graph) => TypeOK
<1>1. TypeOK => Typed
  BY DEF TypeOK, Typed, Reports, Steps, Patches
<1>2. ASSUME Typed, GraphOK(graph)  PROVE TypeOK
  <2>1. Present(graph) => /\ graph.whole \in BOOLEAN /\ graph.whole = graph.g.marker
                          /\ WellFormed(graph.g)
                          /\ graph.g.off.byte_count = Len(graph.g.bytes)
    BY <1>2 DEF GraphOK, IsGraph
  <2> QED  BY <1>2, <2>1 DEF TypeOK, Typed, Reports, Steps, Patches
<1> QED  BY <1>1, <1>2

LEMMA TypedStep ==
    ASSUME Typed, [Next]_vars  PROVE Typed'
<1>0. MaxCalls \in Nat /\ MaxEdits \in Nat
  BY TransplantAssumption
<1> USE <1>0 DEF Typed, Reports, Steps, Patches
<1>1. ASSUME NEW nr \in BOOLEAN, NEW ne \in BOOLEAN, Start(nr, ne)  PROVE Typed'
  <2>1. [NoNotes EXCEPT !.call = calls + 1]
          = [call |-> calls + 1, tui |-> "none", assets |-> "none"]
    BY DEF NoNotes
  <2> QED  BY <1>1, <2>1 DEF Start, env
<1>2. CASE ExtractStep \/ DetectStep \/ ConvertStep \/ PatchStep \/ VerifyStep
  BY <1>2 DEF ExtractStep, DetectStep, ConvertStep, PatchStep, VerifyStep, Go, env, opts
<1>3. CASE AssembleStep \/ ReviveStep
  BY <1>3 DEF AssembleStep, ReviveStep, RevivalBases, Go, env, opts
<1>4. CASE SwapStep
  <2>1. PICK v \in {"absent", "pass", "unprobed", "fail"} : notes' = [notes EXCEPT !.tui = v]
    BY <1>4 DEF SwapStep, Probed
  <2>2. UNCHANGED <<env, calls, opts, report, verdict, base>> /\ at' = "assets"
    BY <1>4 DEF SwapStep, Go
  <2>3. notes' \in Reports
    BY <2>1
  <2> QED  BY <2>2, <2>3 DEF env, opts
<1>5. CASE AssetsStep
  <2>1. PICK v \in {"skipped", "ok", "failed"} : report' = [notes EXCEPT !.assets = v]
    BY <1>5 DEF AssetsStep
  <2>2. /\ UNCHANGED <<env, calls, opts>> /\ at' = "idle" /\ base' = NoBase
        /\ notes' = NoNotes /\ verdict' \in {"ok", "failed"}
    BY <1>5 DEF AssetsStep, End
  <2>3. report' \in Reports /\ notes' \in Reports
    BY <2>1, <2>2 DEF NoNotes
  <2> QED  BY <2>2, <2>3 DEF env, opts
<1>6. CASE Break
  BY <1>6 DEF Break, End, NoNotes, env, opts
<1>7. CASE Command
  BY <1>7 DEF Command, CmdExtract, CmdConvert, CmdPatch, CmdAssemble, CmdRevive, CmdSwap,
              Call, Did, Broke, env, opts
<1>8. CASE Edit
  BY <1>8 DEF Edit, opts
<1>9. CASE UNCHANGED vars
  BY <1>9 DEF vars, env, opts
<1> QED  BY <1>1, <1>2, <1>3, <1>4, <1>5, <1>6, <1>7, <1>8, <1>9 DEF Next, All

-----------------------------------------------------------------------------
(* How far "all" has come, and that it is complete in the end.             *)

\* A command is over in one step, and "all" is not under way then.
LEMMA CommandIs ==
    ASSUME Command
    PROVE  /\ at = "idle" /\ at' = "idle" /\ calls' = calls + 1
           /\ UNCHANGED <<report, notes, src, lib, cfg, prebuilt, noRevive, noExec>>
BY DEF Command, CmdExtract, CmdConvert, CmdPatch, CmdAssemble, CmdRevive, CmdSwap,
       Call, env, opts

LEMMA IdleStages ==
    ASSUME at = "idle"  PROVE Stage /\ Made
BY DEF Stage, Made, Steps, Patches

LEMMA StageStep ==
    ASSUME Typed, Stage, [Next]_vars  PROVE Stage'
<1> USE DEF Stage, Steps, Patches
<1>1. ASSUME NEW nr \in BOOLEAN, NEW ne \in BOOLEAN, Start(nr, ne)  PROVE Stage'
  <2>1. CASE at' = "extract"
    <3>1. notes' = [NoNotes EXCEPT !.call = calls + 1] /\ report' = report
          /\ calls' = calls + 1
      BY <1>1, <2>1 DEF Start
    <3>2. notes'.call = calls' /\ report'.call < calls'
      BY <3>1 DEF NoNotes, Typed, Reports
    <3> QED  BY <2>1, <3>2
  <2>2. CASE at' = "idle"
    BY <2>2
  <2> QED  BY <1>1, <2>1, <2>2 DEF Start
<1>2. CASE ExtractStep
  BY <1>2 DEF ExtractStep, Go, env, Upstream
<1>3. CASE DetectStep
  BY <1>3 DEF DetectStep, Go, env, files, Upstream
<1>4. CASE ConvertStep
  <2>1. graph.g = Upstream
    BY <1>4 DEF ConvertStep, Whole
  <2>2. Upstream' = Upstream
    BY <1>4 DEF ConvertStep, Go, env, Upstream
  <2>3. at' = "patch" /\ UNCHANGED <<src, calls, notes, report>>
    BY <1>4 DEF ConvertStep, Go, env
  <2> HIDE DEF Upstream
  <2>4. Long(Upstream)' = Long(Upstream)
    BY <2>2 DEF Long
  <2> QED  BY <1>4, <2>1, <2>2, <2>3, <2>4 DEF ConvertStep
<1>5. CASE PatchStep
  <2>1. graph.g = Long(Upstream)
    BY <1>5 DEF PatchStep, Whole
  <2>2. Upstream' = Upstream
    BY <1>5 DEF PatchStep, Go, env, Upstream
  <2>3. at' = "assemble" /\ UNCHANGED <<src, cfg, calls, notes, report>>
    BY <1>5 DEF PatchStep, Go, env
  <2> HIDE DEF Upstream
  <2>4. Long(Upstream)' = Long(Upstream)
    BY <2>2 DEF Long
  <2> QED  BY <1>5, <2>1, <2>2, <2>3, <2>4 DEF PatchStep
<1>6. CASE AssembleStep \/ ReviveStep \/ VerifyStep \/ SwapStep
  <2>1. /\ at \in Patches /\ at' \in Patches
        /\ UNCHANGED <<src, cfg, calls, graph, report>>
        /\ notes'.call = notes.call
    <3>1. CASE AssembleStep \/ ReviveStep \/ VerifyStep
      BY <3>1 DEF AssembleStep, ReviveStep, VerifyStep, Go, env, files
    <3>2. CASE SwapStep
      BY <3>2 DEF SwapStep, Probed, Go, env, Typed, Reports
    <3> QED  BY <1>6, <3>1, <3>2
  <2>2. Upstream' = Upstream
    BY <2>1 DEF Upstream
  <2> HIDE DEF Upstream
  <2>3. Long(Upstream)' = Long(Upstream)
    BY <2>2 DEF Long
  <2> QED  BY <2>1, <2>2, <2>3
<1>7. CASE AssetsStep \/ Break \/ Command \/ Edit
  <2>1. at' = "idle"
    BY <1>7, CommandIs DEF AssetsStep, Break, End, Edit
  <2> QED  BY <2>1
<1>8. CASE UNCHANGED vars
  <2>1. UNCHANGED <<src, cfg, calls, graph, report, notes, at>>
    BY <1>8 DEF vars, env, files
  <2> QED  BY <2>1 DEF Upstream, Long
<1> QED  BY <1>1, <1>2, <1>3, <1>4, <1>5, <1>6, <1>7, <1>8 DEF Next, All

LEMMA MadeStep ==
    ASSUME TypeOK, FilesOK, Made, [Next]_vars  PROVE Made'
<1>1. CASE at' \notin {"verify", "swap", "assets"}
  BY <1>1 DEF Made
<1>2. CASE ReviveStep
  <2>1. at' = "verify" /\ UNCHANGED <<calls, noRevive, graph>>
    BY <1>2 DEF ReviveStep, Go, opts
  <2>2. ~noRevive => Revives(graph) /\ revived' = Grafted(base', calls)
    BY <1>2 DEF ReviveStep
  <2>3. ~noRevive => /\ IsProduct(revived') /\ revived'.whole = TRUE
                     /\ revived'.made = calls /\ revived'.of = graph
    <3> DEFINE p == Grafted(base', calls)
    <3>1. ~noRevive => IsProduct(p) /\ p.whole = TRUE /\ p.made = calls /\ p.of = graph
      BY <2>2, GraftedIs DEF FilesOK
    <3>2. ~noRevive => revived' = p
      BY <2>2
    <3> HIDE DEF p
    <3> QED  BY <3>1, <3>2
  <2> QED  BY <2>1, <2>3 DEF Made, Present, Absent, IsProduct
<1>3. CASE VerifyStep
  <2>1. at = "verify" /\ at' = "swap"
        /\ UNCHANGED <<calls, noRevive, noExec, graph, revived>>
    BY <1>3 DEF VerifyStep, Go, opts, files
  <2>2. (~noRevive /\ ~noExec) => Runs(revived)
    BY <1>3 DEF VerifyStep, VerifyTarget
  <2> HIDE DEF Runs
  <2>3. Runs(revived)' = Runs(revived)
    BY <2>1 DEF Runs
  <2> QED  BY <2>1, <2>2, <2>3 DEF Made
<1>4. CASE SwapStep
  <2>1. at = "swap" /\ at' = "assets"
        /\ UNCHANGED <<calls, noRevive, noExec, graph, revived, lib>>
    BY <1>4 DEF SwapStep, Go, opts, env
  <2>2. Runs(revived)' = Runs(revived)
    BY <2>1 DEF Runs
  <2>3. notes \in Reports
    BY TypeOfParts DEF Typed
  <2>4. ASSUME ~noRevive, notes'.tui \in {"pass", "unprobed"}
        PROVE  /\ Present(tui') /\ tui'.whole /\ tui'.made = calls /\ tui'.of = graph
               /\ tui'.tui.lib = lib
    <3>1. Present(revived) /\ revived.whole /\ revived.of = graph
      BY <2>1, <2>4 DEF Made
    <3>2. SwapSource = revived
      BY <3>1 DEF SwapSource
    <3>3. tui' = Swapped
      BY <1>4, <2>3, <2>4 DEF SwapStep, Probed, Reports
    <3> DEFINE p == WithLib(revived, calls)
    <3>4. /\ IsProduct(p) /\ p.whole = revived.whole /\ p.made = calls
          /\ p.of = revived.of /\ p.tui = Put(revived.tui, lib)
      BY <3>1, SwappedIs DEF FilesOK
    <3>5. tui' = p
      BY <3>2, <3>3 DEF Swapped
    <3> HIDE DEF p
    <3> DEFINE l == Put(revived.tui, lib)
    <3>6. l.lib = lib
      BY DEF Put
    <3>7. p.tui = l
      BY <3>4
    <3> HIDE DEF l
    <3>8. IsProduct(p) /\ p.whole /\ p.made = calls /\ p.of = graph /\ p.tui.lib = lib
      BY <3>1, <3>4, <3>6, <3>7
    <3> QED  BY <3>5, <3>8 DEF Present, Absent, IsProduct
  <2> HIDE DEF Runs
  <2> QED  BY <2>1, <2>2, <2>4 DEF Made
<1>5. CASE UNCHANGED vars
  <2>1. UNCHANGED <<at, calls, noRevive, noExec, graph, revived, tui, lib, notes>>
    BY <1>5 DEF vars, opts, env, files
  <2> QED  BY <2>1 DEF Made, Runs
<1>6. CASE Next
  <2>1. (ReviveStep \/ VerifyStep \/ SwapStep) \/ at' \notin {"verify", "swap", "assets"}
    BY <1>6, CommandIs
    DEF Next, All, Start, ExtractStep, DetectStep, ConvertStep, PatchStep, AssembleStep,
        AssetsStep, Break, Edit, Go, End
  <2> QED  BY <1>1, <1>2, <1>3, <1>4, <2>1
<1> QED  BY <1>5, <1>6

\* A step that leaves the sources of the graph leaves what faithful means.
LEMMA FaithfulStays ==
    ASSUME UNCHANGED <<src, cfg, graph>>
    PROVE  Ambiguous' = Ambiguous /\ Faithful(graph.g)' = Faithful(graph.g)
<1>1. Upstream' = Upstream /\ Size' = Size /\ P' = P
  BY DEF Upstream, Size, P
<1> HIDE DEF Upstream, Size, P
<1>2. Ambiguous' = Ambiguous
  BY <1>1 DEF Ambiguous
<1>3. Faithful(graph.g)' = Faithful(graph.g)
  BY <1>1 DEF Faithful
<1> QED  BY <1>2, <1>3

LEMMA CompleteEnd ==
    ASSUME TypeOK, FilesOK, Stage, Made, AssetsStep, verdict' = "ok"
    PROVE  AllIsComplete'
<1>1. /\ at = "assets" /\ UNCHANGED <<src, lib, cfg, prebuilt, calls, noRevive, noExec, graph>>
  BY DEF AssetsStep, End, env, opts
<1>2. graph.whole = TRUE
  BY <1>1, BusyGraph DEF Steps, Patches
<1>3. ~Ambiguous => Faithful(graph.g)
  BY <1>1, FaithfulEnd DEF Patches
<1>4. Ambiguous' = Ambiguous /\ Faithful(graph.g)' = Faithful(graph.g)
  BY <1>1, FaithfulStays
<1>5. notes \in Reports /\ report'.tui = notes.tui
  <2>1. notes \in Reports
    BY TypeOfParts DEF Typed
  <2>2. \E v \in {"skipped", "ok", "failed"} : report' = [notes EXCEPT !.assets = v]
    BY DEF AssetsStep
  <2> QED  BY <2>1, <2>2 DEF Reports
<1>6. ~noRevive => /\ Present(revived) /\ revived.whole /\ revived.made = calls
                   /\ revived.of = graph
                   /\ ~noExec => Runs(revived)
  BY <1>1 DEF Made
<1>7. (~noRevive /\ notes.tui \in {"pass", "unprobed"}) =>
         Present(tui) /\ tui.whole /\ tui.made = calls /\ tui.of = graph /\ tui.tui.lib = lib
  BY <1>1 DEF Made
<1> DEFINE HasAssets(p) == \A a \in Assets : p.slots[a].lib = prebuilt[a]
           GoodRevived(p) == /\ p.whole /\ p.made = calls /\ p.of = graph
                             /\ ~noExec => Runs(p)
           GoodTui(p) == p.whole /\ p.made = calls /\ p.of = graph /\ p.tui.lib = lib
<1>8. SUFFICES /\ ~noRevive => GoodRevived(revived')
               /\ (~noRevive /\ notes.tui \in {"pass", "unprobed"}) => GoodTui(tui')
               /\ (Section /\ prebuilt # NoDir /\ Present(Target)') => HasAssets(Target')
  <2>1. Section' = Section
    BY <1>1 DEF Section
  <2>2. Runs(revived)' = Runs(revived')
    BY DEF Runs
  <2> HIDE DEF Runs, Faithful, Ambiguous, Section
  <2> QED  BY <1>1, <1>2, <1>3, <1>4, <1>5, <2>1, <2>2 DEF AllIsComplete
<1>9. CASE /\ ~Section \/ prebuilt = NoDir \/ ~Present(Target)
           /\ UNCHANGED <<native, revived, tui>>
  <2>1. Target' = Target /\ Present(Target)' = Present(Target)
    BY <1>9 DEF Target, Present
  <2> HIDE DEF Runs, Section, Target
  <2> QED  BY <1>6, <1>7, <1>9, <2>1
<1>10. CASE /\ prebuilt # NoDir /\ Present(Target) /\ Fills /\ Rewritten(Filled(Target))
  <2> DEFINE p == Target
             f == Filled(p)
  <2>1. /\ IsProduct(f) /\ HasAssets(f)
        /\ f.whole = p.whole /\ f.of = p.of /\ f.made = p.made /\ f.base = p.base
        /\ f.mode = p.mode /\ f.tui = p.tui
    BY <1>10, TargetOK, FilledIs DEF Fills
  <2>2. Present(f)
    BY <2>1 DEF Present, Absent, IsProduct
  <2>3. Runs(p) => Runs(f)
    BY <2>1 DEF Runs
  <2> HIDE DEF f
  <2>4. GoodRevived(p) => GoodRevived(f)
    <3> HIDE DEF Runs
    <3> QED  BY <2>1, <2>3
  <2>5. GoodTui(p) => GoodTui(f)
    BY <2>1
  <2>6. CASE Present(tui)
    <3>1. p = tui /\ tui' = f /\ revived' = revived
      BY <1>10, <2>6 DEF Target, Rewritten, f
    <3>2. Target' = f
      BY <2>2, <3>1 DEF Target, Present
    <3> HIDE DEF p, Runs, Target
    <3> QED  BY <1>6, <1>7, <2>1, <2>5, <3>1, <3>2
  <2>7. CASE ~Present(tui)
    <3>1. p = revived /\ revived' = f /\ tui' = tui
      BY <1>10, <2>7 DEF Target, Rewritten, f
    <3>2. Target' = f
      BY <2>7, <3>1 DEF Target, Present
    <3> HIDE DEF p, Runs, Target
    <3> QED  BY <1>6, <1>7, <2>1, <2>4, <2>7, <3>1, <3>2
  <2> QED  BY <2>6, <2>7
<1> QED  BY <1>9, <1>10 DEF AssetsStep, End

LEMMA CompleteStep ==
    ASSUME TypeOK, FilesOK, Stage, Made, AllIsComplete, [Next]_vars  PROVE AllIsComplete'
<1>1. CASE at' = "idle" /\ verdict' = "ok" /\ report'.call = calls'
  <2>1. CASE AssetsStep
    BY <1>1, <2>1, CompleteEnd
  <2>2. CASE Command
    <3>1. report'.call \in 0..calls /\ calls' = calls + 1 /\ calls \in Nat
      BY <2>2, CommandIs, TypeOfParts DEF Typed, Reports
    <3> QED  BY <1>1, <3>1
  <2>3. CASE UNCHANGED vars
    <3>1. UNCHANGED <<src, lib, cfg, prebuilt, calls, at, noRevive, noExec, graph, revived,
                      tui, report, verdict>>
      BY <2>3 DEF vars, env, opts, files
    <3>2. Ambiguous' = Ambiguous /\ Faithful(graph.g)' = Faithful(graph.g)
      BY <3>1, FaithfulStays
    <3>3. Runs(revived)' = Runs(revived)
      BY <3>1 DEF Runs
    <3> QED  BY <3>1, <3>2, <3>3 DEF AllIsComplete, AllOk, Section, Target, Present
  <2>4. CASE Next
    <3>1. AssetsStep \/ Command \/ at' # "idle" \/ verdict' # "ok"
      BY <2>4
      DEF Next, All, Start, ExtractStep, DetectStep, ConvertStep, PatchStep, AssembleStep,
          ReviveStep, VerifyStep, SwapStep, Break, Edit, Go, End
    <3> QED  BY <1>1, <2>1, <2>2, <3>1
  <2> QED  BY <2>3, <2>4
<1>2. CASE ~(at' = "idle" /\ verdict' = "ok" /\ report'.call = calls')
  <2>1. ~AllOk'
    BY <1>2 DEF AllOk
  <2> QED  BY <2>1 DEF AllIsComplete
<1> QED  BY <1>1, <1>2

-----------------------------------------------------------------------------
(* The theorems.                                                           *)

LEMMA InitIInv == Init => IInv
<1> SUFFICES ASSUME Init  PROVE IInv
  OBVIOUS
<1>1. FilesOK
  BY InitFiles
<1>2. TypeOK
  <2>1. report \in Reports /\ notes \in Reports
    BY DEF Init, Reports, NoNotes
  <2>2. MaxCalls \in Nat /\ MaxEdits \in Nat
    BY TransplantAssumption
  <2>3. Typed
    <3>1. calls \in 0..MaxCalls /\ edits \in 0..MaxEdits
      BY <2>2 DEF Init
    <3>2. noRevive \in BOOLEAN /\ noExec \in BOOLEAN
      BY DEF Init
    <3> QED  BY <2>1, <3>1, <3>2, Zenon DEF Init, Typed
  <2> QED  BY <1>1, <2>3, TypeOfParts DEF FilesOK
<1>3. Stage /\ Made
  BY IdleStages DEF Init
<1>4. AllIsComplete
  <2>1. ~AllOk
    BY DEF Init, AllOk
  <2> QED  BY <2>1 DEF AllIsComplete
<1> QED  BY <1>1, <1>2, <1>3, <1>4 DEF IInv

LEMMA NextIInv == IInv /\ [Next]_vars => IInv'
<1> SUFFICES ASSUME IInv, [Next]_vars  PROVE IInv'
  OBVIOUS
<1>1. FilesOK'
  BY FilesStep DEF IInv
<1>2. TypeOK'
  <2>1. Typed'
    BY TypedStep, TypeOfParts DEF IInv
  <2> QED  BY <1>1, <2>1, TypeOfParts, PTL DEF FilesOK
<1>3. Stage'
  BY StageStep, TypeOfParts DEF IInv
<1>4. Made' /\ AllIsComplete'
  BY MadeStep, CompleteStep DEF IInv
<1> QED  BY <1>1, <1>2, <1>3, <1>4 DEF IInv

LEMMA Invariant == Spec => []IInv
BY InitIInv, NextIInv, PTL DEF Spec

\* Every variable stays within its type, and what the calls leave in
\* module-graph.bin is always a graph whose Offsets tell where its parts are,
\* whichever steps wrote it (cmd_all and the commands of transplant.py).
THEOREM TypeCorrect == Spec => []TypeOK
<1>1. IInv => TypeOK
  BY DEF IInv
<1> QED  BY <1>1, Invariant, PTL

\* When "all" ends well (cmd_all) the graph on disk says what the upstream
\* graph says, in long records and with the patches applied, and the products
\* hold that graph and the libraries that were there, in spite of whatever
\* earlier calls left behind.
THEOREM AllIsAlwaysComplete == Spec => []AllIsComplete
<1>1. IInv => AllIsComplete
  BY DEF IInv
<1> QED  BY <1>1, Invariant, PTL

\* A graph that was cut short is in no revived or tui binary that is whole and
\* was grafted by revive_patch.py: its check for the marker is enough.  The raw
\* binary of assemble, and a tui binary made from it, are not of these.
THEOREM NothingFromTornAlways == Spec => []NothingFromTorn
<1>1. IInv => NothingFromTorn
  BY DEF IInv, FilesOK, NativeOK, NothingFromTorn
<1> QED  BY <1>1, Invariant, PTL

\* swap_native_assets.py changes the slots of all assets or of none, from one
\* set of prebuilts, and within their room, however often it is called and
\* whatever else is cut short.
THEOREM AssetsOfOneSetAlways == Spec => []AssetsOfOneSet
<1>1. IInv => AssetsOfOneSet
  BY DEF IInv, FilesOK, RawOK, NativeOK, SlotsOK, AssetsOfOneSet
<1> QED  BY <1>1, Invariant, PTL
=============================================================================
