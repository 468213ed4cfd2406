--------------------------- MODULE RootBlockProofs ---------------------------
(* Proofs about RootBlock: as long as no modification overlaps a write, and     *)
(* whatever STARTUP, WIPE and the power do, a whole sector is left at every     *)
(* moment. The invariant follows the sector being written: the other one is     *)
(* whole, and if cmd_init has made the one being written the sector in use, it  *)
(* will be whole when the writer is done with it.                               *)
EXTENDS RootBlock, TLAPS

USE DEF Sectors, Fields, Other, Blank, PageIsRead

LEMMA OtherSector ==
    ASSUME NEW s \in Sectors
    PROVE  /\ Other(s) \in Sectors
           /\ Other(s) # s
           /\ Other(Other(s)) = s
  OBVIOUS

LEMMA SameFunction ==
    ASSUME NEW S, NEW T, NEW f \in [S -> T], NEW g \in [S -> T],
           \A x \in S : f[x] = g[x]
    PROVE  f = g
  OBVIOUS

LEMMA SealedImage ==
    ASSUME NEW i \in Int, NEW d \in [Fields -> Nat]
    PROVE  /\ Sealed(i, d) \in Image
           /\ Valid(Sealed(i, d))
           /\ Sealed(i, d).data = d
           /\ Sealed(i, d).crc.data = d
           /\ Sealed(i, d).data_iteration = i
  BY SMT DEF Sealed, Image, Valid, Sum

LEMMA ErasedImage ==
    /\ ErasedSector \in Image
    /\ ~Valid(ErasedSector)
    /\ ErasedSector.crc.data \in [Fields -> Nat]
    /\ \A f \in Fields : ErasedSector.data[f] = Blank
  <1>1. 1 \in Fields
    BY RootBlockAssumption
  <1> DEFINE sum == [data_iteration |-> Blank, data |-> [f \in Fields |-> 0]]
             blanks == [f \in Fields |-> Blank]
  <1>2. ErasedSector = [crc |-> sum, data_iteration |-> Blank, data |-> blanks]
    BY DEF ErasedSector
  <1>3. /\ sum \in [data_iteration : Int, data : [Fields -> Int]]
        /\ sum.data \in [Fields -> Nat]
        /\ blanks \in [Fields -> Int]
    OBVIOUS
  <1>4. sum.data[1] = 0 /\ blanks[1] = -1
    BY <1>1
  <1>5. \A f \in Fields : blanks[f] = Blank
    OBVIOUS
  <1> HIDE DEF sum, blanks
  <1>6. ErasedSector \in Image
    BY <1>2, <1>3 DEF Image
  <1>7. ~Valid(ErasedSector)
    BY <1>2, <1>4 DEF Valid, Sum
  <1> QED
    BY <1>2, <1>3, <1>5, <1>6, <1>7

(* A whole image whose checksum is not one of erased fields has none itself. *)
LEMMA WholeNotBlank ==
    ASSUME NEW d \in Image, Valid(d), d.crc.data \in [Fields -> Nat]
    PROVE  d.data \in [Fields -> Nat]
  BY DEF Image, Valid, Sum

LEMMA ProgrammedImage ==
    ASSUME NEW d \in Image, NEW from \in Image, NEW pos \in 0 .. NFields
    PROVE  /\ Programmed(d, from, pos) \in Image
           /\ pos = 0 => /\ Programmed(d, from, pos).crc = from.crc
                         /\ Programmed(d, from, pos).data_iteration
                              = from.data_iteration
                         /\ Programmed(d, from, pos).data = d.data
           /\ pos # 0 => /\ Programmed(d, from, pos).crc = d.crc
                         /\ Programmed(d, from, pos).data_iteration
                              = d.data_iteration
                         /\ Programmed(d, from, pos).data
                              = [d.data EXCEPT ![pos] = from.data[pos]]
  <1>1. CASE pos = 0
    BY <1>1 DEF Programmed, Image
  <1>2. CASE pos # 0
    BY <1>2, RootBlockAssumption DEF Programmed, Image
  <1> QED BY <1>1, <1>2

(* cmd_init adopts a whole sector if there is one. *)
LEMMA AdoptsWhole ==
    ASSUME NEW fl \in [Sectors -> Image], NEW s \in Sectors, Valid(fl[s])
    PROVE  Adopted(fl) \in Sectors /\ Valid(fl[Adopted(fl)])
  BY DEF Adopted

LEMMA AdoptedSector ==
    ASSUME NEW fl
    PROVE  Adopted(fl) \in Sectors
  BY DEF Adopted

(* While the fields are being programmed, the sector cannot pass for whole. *)
LEMMA HalfWrittenNotWhole ==
    ASSUME IInv, flash_state = "WRITING"
    PROVE  ~Valid(flash[writing.dest])
  <1> DEFINE d == flash[writing.dest]
  <1>1. d \in Image /\ writing.dest \in Sectors /\ writing.pos \in 0 .. NFields
    BY DEF IInv, TypeOK
  <1>2. d.data[NFields] = Blank
    BY <1>1, RootBlockAssumption DEF IInv, RestIsBlank
  <1>3. d.crc.data[NFields] \in Nat
    <2>1. d.crc.data \in [Fields -> Nat]
      BY <1>1 DEF IInv, NothingBlank
    <2>2. NFields \in Fields BY RootBlockAssumption
    <2> HIDE DEF d
    <2> QED BY <2>1, <2>2
  <1> QED
    BY <1>2, <1>3 DEF Valid, Sum

(* The state invariant yields what the runs check. *)
LEMMA InvariantRecovers ==
    IInv => AlwaysValid
  <1> SUFFICES ASSUME IInv PROVE AlwaysValid
    OBVIOUS
  <1>1. CASE flash_state = "IDLE"
    BY <1>1 DEF IInv, InUseIsWhole, TypeOK, AlwaysValid
  <1>2. CASE flash_state # "IDLE"
    BY <1>2, OtherSector DEF IInv, WriterSparesOther, TypeOK, AlwaysValid
  <1> QED BY <1>1, <1>2

LEMMA InitInvariant == Init => IInv
  <1> SUFFICES ASSUME Init PROVE IInv
    OBVIOUS
  <1> DEFINE zero == Sealed(0, [f \in Fields |-> 0])
  <1>1. zero \in Image /\ Valid(zero) /\ zero.data \in [Fields -> Nat]
        /\ zero.crc.data \in [Fields -> Nat]
    <2>1. [f \in Fields |-> 0] \in [Fields -> Nat] /\ 0 \in Int
      OBVIOUS
    <2> HIDE DEF Fields
    <2> QED BY <2>1, SealedImage
  <1>2. flash = [s \in Sectors |-> IF s = 2 THEN zero ELSE ErasedSector]
        /\ root_page = flash[2] /\ block = zero
    BY DEF Init
  <1> HIDE DEF zero
  <1>3. flash[2] = zero /\ flash[1] = ErasedSector
    BY <1>2
  <1>4. TypeOK
    BY <1>1, <1>2, <1>3, ErasedImage, RootBlockAssumption
       DEF Init, TypeOK, NotWriting
  <1>5. InUseIsWhole /\ WriterSparesOther /\ WhatIsWritten /\ RestIsBlank
        /\ InUseWillBeWhole
    BY <1>1, <1>3 DEF Init, InUseIsWhole, WriterSparesOther, WhatIsWritten,
                      RestIsBlank, InUseWillBeWhole
  <1>6. NothingBlank
    BY <1>1, <1>2, <1>3, ErasedImage DEF NothingBlank
  <1> QED
    BY <1>4, <1>5, <1>6 DEF IInv, Init

(* A modification does not disturb the writer: it is not reading root_page. *)
LEMMA ModifyKeeps ==
    ASSUME IInv, "overlap" \notin disturbed',
           NEW changed \in SUBSET Fields, Modify(changed)
    PROVE  IInv'
  <1>1. /\ version' \in 0 .. MaxVersion
        /\ version' \in Nat
        /\ UNCHANGED <<flash, _root_page, g_root_page_valid, flash_state,
                       writing, block>>
    BY RootBlockAssumption DEF Modify, IInv, TypeOK
  <1>2. flash_state # "IDLE" => writing.src = "block"
    BY DEF Modify, IInv, TypeOK
  <1>3. /\ root_page' \in Image
        /\ root_page'.data \in [Fields -> Nat]
        /\ root_page'.crc = root_page.crc
    <2>1. root_page \in Image /\ root_page.data \in [Fields -> Nat]
      BY DEF IInv, TypeOK, NothingBlank
    <2> DEFINE new == [f \in Fields |-> IF f \in changed THEN version'
                                                         ELSE root_page.data[f]]
    <2>3. new \in [Fields -> Nat]
      BY <1>1, <2>1
    <2>2. root_page' = [root_page EXCEPT !.data = new]
      BY <2>1 DEF Modify, Image
    <2> HIDE DEF new
    <2> QED BY <2>1, <2>2, <2>3 DEF Image
  <1>4. TypeOK'
    BY <1>1, <1>3 DEF IInv, TypeOK, Modify
  <1>5. InUseIsWhole' /\ WriterSparesOther' /\ RestIsBlank'
    BY <1>1 DEF IInv, InUseIsWhole, WriterSparesOther, RestIsBlank
  <1>6. WhatIsWritten'
    BY <1>1, <1>2 DEF IInv, WhatIsWritten
  <1>7. InUseWillBeWhole'
    BY <1>1, <1>2 DEF IInv, InUseWillBeWhole, Source
  <1>8. NothingBlank'
    BY <1>1, <1>3 DEF IInv, NothingBlank
  <1> QED
    BY <1>4, <1>5, <1>6, <1>7, <1>8 DEF IInv

(* The start of a write, from either source. *)
LEMMA StartKeeps ==
    ASSUME IInv, NEW src \in {"root_page", "block"}, flash_write_page(src),
           "overlap" \notin disturbed',
           disturbed' \subseteq {"overlap", "early", "startup", "raw"},
           version' \in 0 .. MaxVersion,
           src = "root_page" => g_root_block_sync_state' = "WRITING",
           src = "block" => Valid(block'),
           g_root_block_sync_state' \in {"SYNCED", "MODIFIED", "WRITING"},
           root_page' \in Image, block' \in Image,
           root_page'.data \in [Fields -> Nat],
           root_page'.crc.data \in [Fields -> Nat],
           block'.crc.data \in [Fields -> Nat],
           src = "root_page" => Valid(root_page')
    PROVE  IInv'
  <1>1. /\ flash_state = "IDLE" /\ flash_state' = "ERASING"
        /\ _root_page' = Other(_root_page)
        /\ writing' = [dest |-> _root_page', src |-> src, pos |-> 0]
        /\ UNCHANGED <<flash, g_root_page_valid>>
    BY DEF flash_write_page
  <1>2. _root_page' \in Sectors /\ Other(_root_page') = _root_page
    BY <1>1, OtherSector DEF IInv, TypeOK
  <1>3. TypeOK'
    BY <1>1, <1>2, RootBlockAssumption DEF IInv, TypeOK
  <1>4. InUseIsWhole' /\ RestIsBlank'
    BY <1>1 DEF InUseIsWhole, RestIsBlank
  <1>5. WriterSparesOther'
    <2>1. writing'.dest = _root_page'
      BY <1>1
    <2>2. Valid(flash[_root_page])
      BY <1>1 DEF IInv, InUseIsWhole
    <2>3. Valid(flash'[Other(writing'.dest)])
      BY <1>1, <1>2, <2>1, <2>2
    <2> QED BY <2>3 DEF WriterSparesOther
  <1>6. WhatIsWritten'
    BY <1>1 DEF WhatIsWritten
  <1>7. InUseWillBeWhole'
    BY <1>1 DEF InUseWillBeWhole, Source
  <1>8. NothingBlank'
    BY <1>1 DEF IInv, NothingBlank
  <1> QED
    BY <1>3, <1>4, <1>5, <1>6, <1>7, <1>8 DEF IInv

LEMMA NextIterationInt ==
    ASSUME IInv
    PROVE  NextIteration \in Int
  <1>1. flash[_root_page].data_iteration \in Int
    BY DEF IInv, TypeOK, Image
  <1> QED
    BY <1>1, RootBlockAssumption DEF NextIteration

LEMMA SyncKeeps ==
    ASSUME IInv, "overlap" \notin disturbed', sync_root_block_immediate
    PROVE  IInv'
  <1>1. root_page' = Sealed(NextIteration, root_page.data)
        /\ root_page.data \in [Fields -> Nat]
    BY DEF sync_root_block_immediate, Stamped, IInv, NothingBlank
  <1>2. /\ root_page' \in Image /\ Valid(root_page')
        /\ root_page'.data \in [Fields -> Nat]
        /\ root_page'.crc.data \in [Fields -> Nat]
    BY <1>1, SealedImage, NextIterationInt
  <1>3. /\ block' = block /\ block \in Image /\ block.crc.data \in [Fields -> Nat]
        /\ g_root_block_sync_state' = "WRITING"
        /\ flash_write_page("root_page")
    BY DEF sync_root_block_immediate, IInv, TypeOK, NothingBlank
  <1>4. /\ disturbed' \subseteq {"overlap", "early", "startup", "raw"}
        /\ version' \in 0 .. MaxVersion
    BY DEF sync_root_block_immediate, IInv, TypeOK
  <1> QED
    BY <1>2, <1>3, <1>4, StartKeeps

LEMMA WriteRawKeeps ==
    ASSUME IInv, "overlap" \notin disturbed',
           NEW data \in [Fields -> Nat], WriteRaw(data)
    PROVE  IInv'
  <1>1. block' = Sealed(NextIteration, data)
    BY DEF WriteRaw, Stamped
  <1>2. block' \in Image /\ Valid(block') /\ block'.crc.data \in [Fields -> Nat]
    BY <1>1, SealedImage, NextIterationInt
  <1>3. /\ root_page' = root_page /\ root_page \in Image
        /\ root_page.data \in [Fields -> Nat]
        /\ root_page.crc.data \in [Fields -> Nat]
        /\ g_root_block_sync_state' = g_root_block_sync_state
        /\ g_root_block_sync_state \in {"SYNCED", "MODIFIED", "WRITING"}
        /\ flash_write_page("block")
    BY DEF WriteRaw, IInv, TypeOK, NothingBlank
  <1>4. /\ disturbed' \subseteq {"overlap", "early", "startup", "raw"}
        /\ version' \in 0 .. MaxVersion
    BY RootBlockAssumption DEF WriteRaw, IInv, TypeOK
  <1> QED
    BY <1>2, <1>3, <1>4, StartKeeps

(* The erase touches the sector being written only. *)
LEMMA EraseKeeps ==
    ASSUME IInv, "overlap" \notin disturbed', Erase
    PROVE  IInv'
  <1>1. /\ flash_state = "ERASING" /\ flash_state' = "WRITING"
        /\ flash' = [flash EXCEPT ![writing.dest] = ErasedSector]
        /\ UNCHANGED <<root_page, _root_page, g_root_page_valid, writing, block,
                       g_root_block_sync_state, version, disturbed>>
    BY DEF Erase
  <1>2. /\ writing.dest \in Sectors /\ Other(writing.dest) \in Sectors
        /\ Other(writing.dest) # writing.dest
    BY OtherSector DEF IInv, TypeOK
  <1>3. /\ flash \in [Sectors -> Image]
        /\ flash'[writing.dest] = ErasedSector
        /\ flash'[Other(writing.dest)] = flash[Other(writing.dest)]
        /\ flash' \in [Sectors -> Image]
    BY <1>1, <1>2, ErasedImage DEF IInv, TypeOK
  <1>4. TypeOK'
    BY <1>1, <1>3 DEF IInv, TypeOK
  <1>5. InUseIsWhole' /\ WriterSparesOther' /\ WhatIsWritten'
    BY <1>1, <1>3 DEF IInv, InUseIsWhole, WriterSparesOther, WhatIsWritten
  <1>6. RestIsBlank'
    BY <1>1, <1>3, ErasedImage DEF RestIsBlank
  <1>7. InUseWillBeWhole'
    <2>1. writing'.pos = 0
      BY <1>1 DEF IInv, RestIsBlank
    <2>2. writing \in [dest : Sectors, src : {"root_page", "block"},
                       pos : 0 .. NFields]
      BY DEF IInv, TypeOK
    <2> QED BY <1>1, <2>1, <2>2 DEF IInv, InUseWillBeWhole, Source
  <1>8. NothingBlank'
    BY <1>1, <1>2, <1>3, ErasedImage DEF IInv, NothingBlank
  <1> QED
    BY <1>4, <1>5, <1>6, <1>7, <1>8 DEF IInv

(* Programming a piece, the last one included. *)
LEMMA ProgramKeeps ==
    ASSUME IInv, "overlap" \notin disturbed', Program
    PROVE  IInv'
  <1> DEFINE dest == writing.dest
             pos == writing.pos
             new == Programmed(flash[dest], Source, pos)
  <1>1. /\ flash_state = "WRITING"
        /\ flash' = [flash EXCEPT ![dest] = new]
        /\ UNCHANGED <<root_page, _root_page, g_root_page_valid, block, version,
                       disturbed>>
    BY DEF Program
  <1>2. /\ pos = NFields => /\ flash_state' = "IDLE" /\ writing' = NotWriting
                            /\ g_root_block_sync_state' =
                                   SyncStateAfterWrite(g_root_block_sync_state)
        /\ pos # NFields => /\ writing' = [writing EXCEPT !.pos = pos + 1]
                            /\ flash_state' = flash_state
                            /\ g_root_block_sync_state' = g_root_block_sync_state
    BY DEF Program
  <1>3. /\ dest \in Sectors /\ Other(dest) \in Sectors /\ Other(dest) # dest
        /\ pos \in 0 .. NFields /\ writing.src \in {"root_page", "block"}
        /\ writing \in [dest : Sectors, src : {"root_page", "block"},
                        pos : 0 .. NFields]
        /\ flash[dest] \in Image /\ Source \in Image
    BY OtherSector DEF IInv, TypeOK, Source
  <1>4. Source.crc.data \in [Fields -> Nat] /\ flash[dest].crc.data \in [Fields -> Nat]
    BY <1>3 DEF IInv, NothingBlank, Source
  <1>5. /\ new \in Image
        /\ new.crc = (IF pos = 0 THEN Source.crc ELSE flash[dest].crc)
        /\ new.data_iteration = (IF pos = 0 THEN Source.data_iteration
                                            ELSE flash[dest].data_iteration)
        /\ pos = 0 => new.data = flash[dest].data
        /\ pos # 0 => new.data = [flash[dest].data EXCEPT ![pos] = Source.data[pos]]
    <2>1. flash[dest] \in Image /\ Source \in Image /\ pos \in 0 .. NFields
      BY <1>3
    <2> HIDE DEF dest, pos, Fields
    <2>2. /\ new \in Image
          /\ pos = 0 => /\ new.crc = Source.crc
                        /\ new.data_iteration = Source.data_iteration
                        /\ new.data = flash[dest].data
          /\ pos # 0 => /\ new.crc = flash[dest].crc
                        /\ new.data_iteration = flash[dest].data_iteration
                        /\ new.data = [flash[dest].data EXCEPT ![pos] =
                                                        Source.data[pos]]
      BY <2>1, ProgrammedImage
    <2> HIDE DEF new
    <2> QED BY <2>2
  <1>6. /\ flash' \in [Sectors -> Image] /\ flash'[dest] = new
        /\ flash'[Other(dest)] = flash[Other(dest)]
    BY <1>1, <1>3, <1>5 DEF IInv, TypeOK
  <1>7. flash[dest].data \in [Fields -> Int] /\ Source.data \in [Fields -> Int]
    BY <1>3 DEF Image
  <1>8. \A f \in Fields : new.data[f] = IF f = pos THEN Source.data[f]
                                                 ELSE flash[dest].data[f]
    <2> HIDE DEF new, dest, pos
    <2>1. CASE pos = 0
      BY <1>5, <2>1
    <2>2. CASE pos # 0
      BY <1>5, <1>7, <2>2
    <2> QED BY <2>1, <2>2
  <1> HIDE DEF new, dest, pos
  <1>9. TypeOK'
    <2>1. writing' \in [dest : Sectors, src : {"root_page", "block"},
                        pos : 0 .. NFields]
      BY <1>2, <1>3, RootBlockAssumption DEF NotWriting, pos
    <2>2. g_root_block_sync_state' \in {"SYNCED", "MODIFIED", "WRITING"}
      BY <1>2 DEF SyncStateAfterWrite, IInv, TypeOK
    <2> QED BY <1>1, <1>2, <1>6, <2>1, <2>2 DEF IInv, TypeOK
  <1>10. /\ flash[Other(dest)] = flash'[Other(dest)]
         /\ Valid(flash[Other(dest)])
    BY <1>1, <1>6 DEF IInv, WriterSparesOther, dest
  <1>11. dest = _root_page =>
           /\ Valid(Source)
           /\ new.crc = Source.crc
           /\ new.data_iteration = Source.data_iteration
           /\ \A f \in Fields : f <= pos => new.data[f] = Source.data[f]
    BY <1>1, <1>3, <1>5, <1>8 DEF IInv, InUseWillBeWhole, dest, pos
  <1>12. CASE pos = NFields
    <2>1. InUseIsWhole'
      <3>1. CASE dest = _root_page
        <4>1. \A f \in Fields : new.data[f] = Source.data[f]
          BY <1>11, <1>12, <3>1, RootBlockAssumption
        <4>2. new.data = Source.data
          <5>1. new.data \in [Fields -> Int]
            BY <1>5 DEF Image
          <5> HIDE DEF Fields
          <5> QED BY <1>7, <4>1, <5>1, SameFunction
        <4>3. Valid(new)
          BY <1>11, <3>1, <4>2 DEF Valid, Sum
        <4> QED BY <1>1, <1>6, <3>1, <4>3 DEF InUseIsWhole
      <3>2. CASE dest # _root_page
        <4>1. Other(dest) = _root_page
          BY <1>3, <3>2 DEF IInv, TypeOK
        <4> QED BY <1>1, <1>10, <4>1 DEF InUseIsWhole
      <3> QED BY <3>1, <3>2
    <2>2. flash_state' = "IDLE"
      BY <1>2, <1>12
    <2>3. WriterSparesOther' /\ WhatIsWritten' /\ RestIsBlank'
          /\ InUseWillBeWhole'
      BY <2>2 DEF WriterSparesOther, WhatIsWritten, RestIsBlank, InUseWillBeWhole
    <2>4. NothingBlank'
      BY <1>1, <1>3, <1>4, <1>5, <1>6 DEF IInv, NothingBlank
    <2> QED BY <1>9, <2>1, <2>3, <2>4 DEF IInv
  <1>13. CASE pos # NFields
    <2>1. /\ flash_state' = "WRITING"
          /\ g_root_block_sync_state' = g_root_block_sync_state
          /\ writing'.dest = dest /\ writing'.src = writing.src
          /\ writing'.pos = pos + 1
      BY <1>1, <1>2, <1>3, <1>13 DEF dest
    <2>2. Source' = Source
      BY <1>1, <2>1 DEF Source
    <2>3. InUseIsWhole'
      BY <2>1 DEF InUseIsWhole
    <2>4. WriterSparesOther'
      BY <1>10, <2>1 DEF WriterSparesOther
    <2>5. WhatIsWritten'
      BY <1>1, <2>1 DEF IInv, WhatIsWritten
    <2>6. RestIsBlank'
      <3> SUFFICES ASSUME NEW f \in Fields, pos + 1 <= f
                   PROVE  new.data[f] = Blank
        BY <1>6, <2>1 DEF RestIsBlank
      <3>1. f # pos /\ pos <= f
        BY <1>3 DEF pos
      <3>2. flash[dest].data[f] = Blank
        BY <1>1, <3>1 DEF IInv, RestIsBlank, dest, pos
      <3> QED BY <1>8, <3>1, <3>2
    <2>7. InUseWillBeWhole'
      <3> SUFFICES ASSUME dest = _root_page
                   PROVE  /\ Valid(Source)
                          /\ new.crc = Source.crc
                          /\ new.data_iteration = Source.data_iteration
                          /\ \A f \in Fields : f < pos + 1 =>
                                new.data[f] = Source.data[f]
        BY <1>1, <1>6, <2>1, <2>2 DEF InUseWillBeWhole
      <3>1. \A f \in Fields : f < pos + 1 => f <= pos
        BY <1>3 DEF pos
      <3> QED BY <1>11, <3>1
    <2>8. NothingBlank'
      BY <1>1, <1>3, <1>4, <1>5, <1>6 DEF IInv, NothingBlank
    <2> QED BY <1>9, <2>3, <2>4, <2>5, <2>6, <2>7, <2>8 DEF IInv
  <1> QED
    BY <1>12, <1>13

(* cmd_init adopts a whole sector, or, while the writer is at work on it and    *)
(* has not erased it yet, one that the writer will make whole again.            *)
LEMMA StartupKeeps ==
    ASSUME IInv, "overlap" \notin disturbed', Startup
    PROVE  IInv'
  <1>1. /\ _root_page' = Adopted(flash)
        /\ root_page' = flash[Adopted(flash)]
        /\ g_root_page_valid' = TRUE
        /\ UNCHANGED <<flash, g_root_block_sync_state, flash_state, writing,
                       block, version>>
    BY DEF Startup, cmd_init
  <1>2. flash \in [Sectors -> Image] /\ \E s \in Sectors : Valid(flash[s])
    BY InvariantRecovers DEF IInv, TypeOK, AlwaysValid
  <1>3. _root_page' \in Sectors /\ Valid(flash[_root_page'])
    BY <1>1, <1>2, AdoptsWhole
  <1>4. /\ root_page' \in Image /\ Valid(root_page')
        /\ root_page'.crc.data \in [Fields -> Nat]
    BY <1>1, <1>2, <1>3 DEF IInv, NothingBlank
  <1>5. root_page'.data \in [Fields -> Nat]
    BY <1>4, WholeNotBlank
  <1>6. TypeOK'
    <2>1. disturbed' \subseteq {"overlap", "early", "startup", "raw"}
      BY DEF Startup, IInv, TypeOK
    <2> QED BY <1>1, <1>3, <1>4, <2>1 DEF IInv, TypeOK
  <1>7. InUseIsWhole'
    BY <1>1, <1>3 DEF InUseIsWhole
  <1>8. WriterSparesOther' /\ WhatIsWritten' /\ RestIsBlank'
    BY <1>1 DEF IInv, WriterSparesOther, WhatIsWritten, RestIsBlank
  <1>9. InUseWillBeWhole'
    <2> SUFFICES ASSUME flash_state # "IDLE", writing.dest = _root_page'
                 PROVE  InUseWillBeWhole'
      BY <1>1 DEF InUseWillBeWhole
    <2>1. flash_state = "ERASING"
      BY <1>3, HalfWrittenNotWhole DEF IInv, TypeOK
    <2>2. Valid(Source')
      BY <1>1, <1>4, <2>1 DEF IInv, WhatIsWritten, TypeOK, Source
    <2> QED BY <1>1, <2>1, <2>2 DEF InUseWillBeWhole
  <1>10. NothingBlank'
    BY <1>1, <1>4, <1>5 DEF IInv, NothingBlank
  <1> QED
    BY <1>6, <1>7, <1>8, <1>9, <1>10 DEF IInv

(* The power may take the sector being erased, never the other one. *)
LEMMA RestartKeeps ==
    ASSUME IInv, "overlap" \notin disturbed', Restart
    PROVE  IInv'
  <1>1. /\ \/ flash' = flash
           \/ /\ flash_state = "ERASING"
              /\ flash' = [flash EXCEPT ![writing.dest] = ErasedSector]
        /\ _root_page' = Adopted(flash')
        /\ root_page' = flash'[Adopted(flash')]
        /\ g_root_page_valid' = TRUE
        /\ g_root_block_sync_state' = "SYNCED"
        /\ flash_state' = "IDLE"
        /\ writing' = NotWriting
        /\ UNCHANGED <<block, version, disturbed>>
    BY DEF Restart, cmd_init
  <1>2. /\ flash' \in [Sectors -> Image]
        /\ \E s \in Sectors : Valid(flash'[s])
        /\ \A s \in Sectors : flash'[s].crc.data \in [Fields -> Nat]
    <2>1. CASE flash' = flash
      BY <2>1, InvariantRecovers
         DEF IInv, TypeOK, AlwaysValid, NothingBlank
    <2>2. CASE /\ flash_state = "ERASING"
               /\ flash' = [flash EXCEPT ![writing.dest] = ErasedSector]
      <3>1. /\ writing.dest \in Sectors /\ Other(writing.dest) \in Sectors
            /\ Other(writing.dest) # writing.dest
        BY OtherSector DEF IInv, TypeOK
      <3>2. /\ flash' \in [Sectors -> Image]
            /\ flash'[Other(writing.dest)] = flash[Other(writing.dest)]
        BY <2>2, <3>1, ErasedImage DEF IInv, TypeOK
      <3>3. Valid(flash[Other(writing.dest)])
        BY <2>2 DEF IInv, WriterSparesOther
      <3>4. \A s \in Sectors : flash'[s].crc.data \in [Fields -> Nat]
        BY <2>2, <3>1, ErasedImage DEF IInv, TypeOK, NothingBlank
      <3> QED BY <3>1, <3>2, <3>3, <3>4
    <2> QED BY <1>1, <2>1, <2>2
  <1>3. _root_page' \in Sectors /\ Valid(flash'[_root_page'])
    BY <1>1, <1>2, AdoptsWhole
  <1>4. /\ root_page' \in Image /\ Valid(root_page')
        /\ root_page'.crc.data \in [Fields -> Nat]
    BY <1>1, <1>2, <1>3
  <1>5. root_page'.data \in [Fields -> Nat]
    BY <1>4, WholeNotBlank
  <1>6. TypeOK'
    BY <1>1, <1>2, <1>3, <1>4, RootBlockAssumption DEF IInv, TypeOK, NotWriting
  <1>7. InUseIsWhole' /\ WriterSparesOther' /\ WhatIsWritten' /\ RestIsBlank'
        /\ InUseWillBeWhole'
    BY <1>1, <1>3 DEF InUseIsWhole, WriterSparesOther, WhatIsWritten,
                      RestIsBlank, InUseWillBeWhole
  <1>8. NothingBlank'
    BY <1>1, <1>2, <1>4, <1>5 DEF IInv, NothingBlank
  <1> QED
    BY <1>6, <1>7, <1>8 DEF IInv

(* Another write's completion: the writer goes on, and only the state of the    *)
(* page may change, from WRITING to SYNCED.                                     *)
LEMMA EmmcKeeps ==
    ASSUME IInv, "overlap" \notin disturbed', EmmcWriteComplete
    PROVE  IInv'
  <1>1. /\ UNCHANGED <<root_page, flash, _root_page, g_root_page_valid,
                       flash_state, writing, block, version>>
        /\ g_root_block_sync_state' \in {"SYNCED", g_root_block_sync_state}
        /\ disturbed' \subseteq disturbed \cup {"early"}
    BY DEF EmmcWriteComplete, SyncStateAfterWrite
  <1>2. TypeOK'
    BY <1>1 DEF IInv, TypeOK
  <1>3. /\ InUseIsWhole' /\ WriterSparesOther' /\ WhatIsWritten' /\ RestIsBlank'
        /\ InUseWillBeWhole' /\ NothingBlank'
    BY <1>1 DEF IInv, InUseIsWhole, WriterSparesOther, WhatIsWritten,
                RestIsBlank, InUseWillBeWhole, NothingBlank, Source
  <1> QED
    BY <1>2, <1>3 DEF IInv

LEMMA NextKeeps ==
    ASSUME IInv, "overlap" \notin disturbed', [Next]_vars
    PROVE  IInv'
  <1>1. ASSUME NEW changed \in (SUBSET Fields) \ {{}}, Modify(changed)
        PROVE  IInv'
    BY <1>1, ModifyKeeps
  <1>2. ASSUME sync_root_block_immediate PROVE IInv'
    BY <1>2, SyncKeeps
  <1>3. ASSUME NEW data \in RawData, WriteRaw(data)
        PROVE  IInv'
    <2>1. data \in [Fields -> Nat]
      BY DEF RawData
    <2> QED BY <1>3, <2>1, WriteRawKeeps
  <1>4. ASSUME Erase PROVE IInv'
    BY <1>4, EraseKeeps
  <1>5. ASSUME Program PROVE IInv'
    BY <1>5, ProgramKeeps
  <1>6. ASSUME Startup PROVE IInv'
    BY <1>6, StartupKeeps
  <1>7. ASSUME Restart PROVE IInv'
    BY <1>7, RestartKeeps
  <1>8. ASSUME EmmcWriteComplete PROVE IInv'
    BY <1>8, EmmcKeeps
  <1>9. CASE UNCHANGED vars
    BY <1>9 DEF vars, IInv, TypeOK, InUseIsWhole, WriterSparesOther,
                WhatIsWritten, RestIsBlank, InUseWillBeWhole, NothingBlank,
                Source, Valid, Sum
  <1> QED
    BY <1>1, <1>2, <1>3, <1>4, <1>5, <1>6, <1>7, <1>8, <1>9 DEF Next

(* No action forgets that a modification has overlapped a write. *)
LEMMA OverlapRemembered ==
    ASSUME [Next]_vars
    PROVE  disturbed \subseteq disturbed'
  BY DEF Next, vars, Modify, sync_root_block_immediate, WriteRaw, Erase, Program,
         EmmcWriteComplete, Startup, Restart

(* The types last whatever overlaps, so they are kept apart from the rest. *)
LEMMA TypesKept ==
    ASSUME TypeOK, [Next]_vars
    PROVE  TypeOK'
  <1> USE DEF TypeOK
  <1>1. NextIteration \in Int
    <2>1. flash[_root_page].data_iteration \in Int
      BY DEF Image
    <2> QED BY <2>1, RootBlockAssumption DEF NextIteration
  <1>2. ASSUME NEW d \in [Fields -> Int]
        PROVE  Sealed(NextIteration, d) \in Image
    BY <1>1 DEF Sealed, Image
  <1>3. \A fl \in [Sectors -> Image] : Adopted(fl) \in Sectors
    BY DEF Adopted
  <1>4. ASSUME NEW changed \in SUBSET Fields, Modify(changed)
        PROVE  TypeOK'
    <2>1. version' \in Int /\ version' \in 0 .. MaxVersion
      BY <1>4, RootBlockAssumption DEF Modify
    <2> DEFINE new == [f \in Fields |-> IF f \in changed THEN version'
                                                         ELSE root_page.data[f]]
    <2>2. new \in [Fields -> Int]
      BY <2>1 DEF Image
    <2>3. root_page' = [root_page EXCEPT !.data = new]
      BY <1>4 DEF Modify, Image
    <2>4. root_page' \in Image
      <3> HIDE DEF new
      <3> QED BY <2>2, <2>3 DEF Image
    <2> HIDE DEF new
    <2> QED BY <1>4, <2>1, <2>4 DEF Modify
  <1>5. ASSUME NEW src \in {"root_page", "block"}, flash_write_page(src)
        PROVE  /\ flash_state' \in {"IDLE", "ERASING", "WRITING"}
               /\ _root_page' \in Sectors
               /\ writing' \in [dest : Sectors, src : {"root_page", "block"},
                                pos : 0 .. NFields]
               /\ flash' \in [Sectors -> Image]
               /\ g_root_page_valid' \in BOOLEAN
    BY <1>5, OtherSector, RootBlockAssumption DEF flash_write_page
  <1>6. ASSUME sync_root_block_immediate PROVE TypeOK'
    <2>1. root_page' \in Image
      BY <1>2, <1>6 DEF sync_root_block_immediate, Stamped, Image
    <2> QED BY <1>5, <1>6, <2>1 DEF sync_root_block_immediate
  <1>7. ASSUME NEW data \in RawData, WriteRaw(data) PROVE TypeOK'
    <2>1. data \in [Fields -> Int]
      BY DEF RawData
    <2>2. block' \in Image
      BY <1>2, <1>7, <2>1 DEF WriteRaw, Stamped
    <2> QED BY <1>5, <1>7, <2>2, RootBlockAssumption DEF WriteRaw
  <1>8. ASSUME Erase PROVE TypeOK'
    BY <1>8, ErasedImage DEF Erase
  <1>9. ASSUME Program PROVE TypeOK'
    <2>1. Source \in Image /\ flash[writing.dest] \in Image
          /\ writing.pos \in 0 .. NFields
      BY DEF Source
    <2>2. Programmed(flash[writing.dest], Source, writing.pos) \in Image
      BY <2>1, ProgrammedImage
    <2>3. flash' \in [Sectors -> Image]
      BY <1>9, <2>2 DEF Program
    <2>4. flash_state' \in {"IDLE", "ERASING", "WRITING"}
          /\ g_root_block_sync_state' \in {"SYNCED", "MODIFIED", "WRITING"}
      BY <1>9 DEF Program, SyncStateAfterWrite
    <2>5. writing' \in [dest : Sectors, src : {"root_page", "block"},
                       pos : 0 .. NFields]
      BY <1>9, RootBlockAssumption DEF Program, NotWriting
    <2> QED BY <1>9, <2>3, <2>4, <2>5 DEF Program
  <1>10. ASSUME Startup PROVE TypeOK'
    BY <1>3, <1>10 DEF Startup, cmd_init
  <1>11. ASSUME Restart PROVE TypeOK'
    <2>1. flash' \in [Sectors -> Image]
      BY <1>11, ErasedImage DEF Restart
    <2>2. Adopted(flash') \in Sectors
      BY <1>3, <2>1
    <2> QED
      BY <1>11, <2>1, <2>2, RootBlockAssumption DEF Restart, cmd_init, NotWriting
  <1>12. ASSUME EmmcWriteComplete PROVE TypeOK'
    BY <1>12 DEF EmmcWriteComplete, SyncStateAfterWrite
  <1>13. CASE UNCHANGED vars
    BY <1>13 DEF vars
  <1> HIDE DEF TypeOK
  <1>14. CASE Next
    BY <1>4, <1>6, <1>7, <1>8, <1>9, <1>10, <1>11, <1>12, <1>14 DEF Next
  <1> QED
    BY <1>13, <1>14

(* The variables keep their types, in whatever order things happen. *)
THEOREM TypeCorrect == Spec => []TypeOK
  <1>1. Init => TypeOK
    BY InitInvariant DEF IInv
  <1> QED
    BY <1>1, TypesKept, PTL DEF Spec

(* The invariant holds in every state, for any number of fields and of          *)
(* modifications, with restarts, STARTUP and raw writes at any moment, until a  *)
(* modification overlaps a write.                                               *)
THEOREM Inductive == Spec => []Protected
  <1>1. Init => Protected
    BY InitInvariant DEF Protected
  <1>2. Protected /\ [Next]_vars => Protected'
    BY NextKeeps, OverlapRemembered DEF Protected
  <1> QED
    BY <1>1, <1>2, PTL DEF Spec

(* docs/hc/flash_memory_managment.md: "there is always a valid root sector if   *)
(* the device power is interrupted while the root sector is being updated";     *)
(* true of write_root_block as long as no modification overlaps a write.        *)
THEOREM Recoverable == Spec => []AlwaysRecoverable
  <1>1. Protected => AlwaysRecoverable
    BY InvariantRecovers DEF Protected, AlwaysRecoverable
  <1> QED
    BY <1>1, Inductive, PTL

(* Between writes the sector `_root_page' points to is whole, even if STARTUP   *)
(* moved the pointer while the writer was at work.                              *)
THEOREM InUseWhole == Spec => []InUseIsWhole
  <1>1. Protected => InUseIsWhole
    BY DEF Protected, IInv, InUseIsWhole
  <1> QED
    BY <1>1, Inductive, PTL

------------------------------------------------------------------------------
(* The two properties that compare iterations. The bound MaxVersion counts all  *)
(* that asks for a write, so with MaxVersion < IterMod data_iteration does not  *)
(* wrap around.                                                                 *)

LEMMA ModSmall ==
    ASSUME NEW m \in Nat, NEW x \in Nat, x < m
    PROVE  x % m = x
  OBVIOUS

LEMMA NextIterationFollows ==
    ASSUME MaxVersion < IterMod, TypeOK, IterationsCounted,
           version - Pending < MaxVersion
    PROVE  /\ NextIteration = flash[_root_page].data_iteration + 1
           /\ NextIteration \in 0 .. (version - Pending + 1)
  <1> DEFINE i == flash[_root_page].data_iteration
  <1>1. i \in -1 .. (version - Pending) /\ version - Pending \in Int
    BY DEF TypeOK, IterationsCounted, Pending
  <1>2. i + 1 \in Nat /\ i + 1 < IterMod
    BY <1>1, RootBlockAssumption
  <1>3. (i + 1) % IterMod = i + 1
    BY <1>2, ModSmall, RootBlockAssumption
  <1> QED
    BY <1>1, <1>2, <1>3 DEF NextIteration, IterationsCounted

LEMMA StampedImage ==
    ASSUME NEW d
    PROVE  /\ Stamped(d).data_iteration = NextIteration
           /\ Stamped(d).data = d.data
           /\ Valid(Stamped(d))
  BY DEF Stamped, Sealed, Valid, Sum

LEMMA ModifyRoot ==
    ASSUME TypeOK, NEW changed \in SUBSET Fields, Modify(changed)
    PROVE  /\ version \in Nat /\ version' = version + 1 /\ Pending' = 1
           /\ root_page'.data_iteration = root_page.data_iteration
           /\ root_page'.data = [f \in Fields |-> IF f \in changed THEN version'
                                                  ELSE root_page.data[f]]
  BY RootBlockAssumption DEF Modify, TypeOK, Pending, Image

(* No iteration gets ahead of the modifications that asked for one. *)
LEMMA IterationsCountedKept ==
    ASSUME MaxVersion < IterMod, TypeOK, IterationsCounted, [Next]_vars
    PROVE  IterationsCounted'
  <1> DEFINE top == version - Pending
  <1>1. version \in Nat /\ version <= MaxVersion /\ Pending \in {0, 1}
        /\ -1 \in -1 .. top
    BY RootBlockAssumption DEF TypeOK, Pending
  <1>2. Adopted(flash) \in Sectors
    BY AdoptedSector
  <1>3. ASSUME NEW changed \in (SUBSET Fields) \ {{}}, Modify(changed)
        PROVE  IterationsCounted'
    <2>1. /\ version' = version + 1 /\ Pending' = 1
          /\ root_page'.data_iteration = root_page.data_iteration
      BY <1>3, ModifyRoot
    <2>2. UNCHANGED <<flash, block, g_root_page_valid>>
      BY <1>3 DEF Modify
    <2>3. \A i \in -1 .. top : i \in -1 .. (version' - Pending')
      BY <1>1, <2>1
    <2> QED BY <2>1, <2>2, <2>3 DEF IterationsCounted
  <1>4. ASSUME sync_root_block_immediate PROVE IterationsCounted'
    <2>1. /\ Pending = 1 /\ Pending' = 0 /\ UNCHANGED <<version, block, flash>>
          /\ root_page' = Stamped(root_page) /\ g_root_page_valid' = g_root_page_valid
      BY <1>4 DEF sync_root_block_immediate, flash_write_page, Pending
    <2>2. NextIteration \in 0 .. version
      BY <1>1, <2>1, NextIterationFollows, RootBlockAssumption
    <2>3. root_page'.data_iteration = NextIteration
      BY <2>1, StampedImage
    <2> QED BY <1>1, <2>1, <2>2, <2>3 DEF IterationsCounted
  <1>5. ASSUME NEW data \in RawData, WriteRaw(data) PROVE IterationsCounted'
    <2>1. /\ Pending' = Pending /\ version' = version + 1 /\ version < MaxVersion
          /\ block' = Stamped([data |-> data])
          /\ UNCHANGED <<root_page, flash, g_root_page_valid>>
      BY <1>5 DEF WriteRaw, flash_write_page, Pending
    <2>2. NextIteration \in 0 .. (top + 1)
      BY <1>1, <2>1, NextIterationFollows, RootBlockAssumption
    <2>3. block'.data_iteration = NextIteration
      BY <2>1, StampedImage
    <2> QED BY <1>1, <2>1, <2>2, <2>3 DEF IterationsCounted
  <1>6. ASSUME Erase PROVE IterationsCounted'
    <2>1. /\ UNCHANGED <<root_page, block, version, g_root_page_valid,
                         g_root_block_sync_state>>
          /\ flash' = [flash EXCEPT ![writing.dest] = ErasedSector]
      BY <1>6 DEF Erase
    <2>2. ErasedSector.data_iteration = -1
      BY DEF ErasedSector
    <2>3. \A s \in Sectors : flash'[s] = IF s = writing.dest THEN ErasedSector
                                                             ELSE flash[s]
      BY <2>1 DEF TypeOK
    <2>4. Pending' = Pending
      BY <2>1 DEF Pending
    <2> QED BY <1>1, <2>1, <2>2, <2>3, <2>4 DEF IterationsCounted
  <1>7. ASSUME Program PROVE IterationsCounted'
    <2>1. /\ UNCHANGED <<root_page, block, version, g_root_page_valid>>
          /\ flash' = [flash EXCEPT ![writing.dest] =
                          Programmed(flash[writing.dest], Source, writing.pos)]
      BY <1>7 DEF Program
    <2>2. Pending' = Pending
      BY <1>7 DEF Program, Pending, SyncStateAfterWrite
    <2>3. /\ flash[writing.dest] \in Image /\ Source \in Image
          /\ writing.pos \in 0 .. NFields /\ writing.dest \in Sectors
      BY DEF TypeOK, Source
    <2>4. Programmed(flash[writing.dest], Source, writing.pos).data_iteration
            \in {flash[writing.dest].data_iteration, Source.data_iteration}
      BY <2>3 DEF Programmed, Image
    <2>5. flash[writing.dest].data_iteration \in -1 .. top
          /\ Source.data_iteration \in -1 .. top
      BY <2>3 DEF IterationsCounted, Source
    <2>6. \A s \in Sectors : flash'[s].data_iteration \in -1 .. top
      BY <2>1, <2>4, <2>5 DEF TypeOK, IterationsCounted
    <2> QED BY <2>1, <2>2, <2>6 DEF IterationsCounted
  <1>8. ASSUME Startup PROVE IterationsCounted'
    <2>1. /\ UNCHANGED <<flash, block, version, g_root_block_sync_state>>
          /\ g_root_page_valid' /\ root_page' = flash[Adopted(flash)]
      BY <1>8 DEF Startup, cmd_init
    <2> QED BY <1>2, <2>1 DEF IterationsCounted, Pending
  <1>9. ASSUME Restart PROVE IterationsCounted'
    <2>1. /\ UNCHANGED <<block, version>> /\ g_root_page_valid'
          /\ Pending' = 0
          /\ root_page' = flash'[Adopted(flash')]
      BY <1>9 DEF Restart, cmd_init, Pending
    <2>2. \A s \in Sectors : flash'[s].data_iteration \in -1 .. top
      BY <1>1, <1>9 DEF Restart, ErasedSector, TypeOK, IterationsCounted
    <2>3. Adopted(flash') \in Sectors
      BY AdoptedSector
    <2>4. \A i \in -1 .. top : i \in -1 .. version
      BY <1>1
    <2> QED BY <1>1, <2>1, <2>2, <2>3, <2>4 DEF IterationsCounted
  <1>10. ASSUME EmmcWriteComplete PROVE IterationsCounted'
    <2>1. /\ UNCHANGED <<root_page, block, flash, version, g_root_page_valid>>
          /\ Pending' = Pending
      BY <1>10 DEF EmmcWriteComplete, SyncStateAfterWrite, Pending
    <2> QED BY <2>1 DEF IterationsCounted
  <1>11. CASE UNCHANGED vars
    BY <1>11 DEF vars, IterationsCounted, Pending
  <1> QED
    BY <1>3, <1>4, <1>5, <1>6, <1>7, <1>8, <1>9, <1>10, <1>11 DEF Next

(* cmd_init adopts a whole sector that does not lose to the other. *)
LEMMA AdoptsNewer ==
    ASSUME NEW fl, NEW s \in Sectors, Valid(fl[s]),
           \A t \in Sectors : fl[t].data_iteration \in Int,
           Valid(fl[Other(s)]) =>
               fl[Other(s)].data_iteration < fl[s].data_iteration
    PROVE  Adopted(fl) = s
  <1>1. CASE s = 1
    BY <1>1 DEF Adopted
  <1>2. CASE s = 2
    BY <1>2 DEF Adopted
  <1> QED BY <1>1, <1>2

LEMMA IterationsInt ==
    ASSUME TypeOK
    PROVE  /\ \A s \in Sectors : flash[s].data_iteration \in Int
           /\ root_page.data_iteration \in Int
           /\ block.data_iteration \in Int
  BY DEF TypeOK, Image

(* What has been programmed of an image that does not change agrees with it, and *)
(* the last piece leaves it whole.                                              *)
LEMMA ProgrammedSoFar ==
    ASSUME NEW old \in Image, NEW from \in Image, Valid(from),
           NEW pos \in 0 .. NFields,
           pos > 0 => /\ old.crc = from.crc
                      /\ old.data_iteration = from.data_iteration,
           \A f \in Fields : f < pos => old.data[f] = from.data[f],
           NEW new, new = Programmed(old, from, pos)
    PROVE  /\ new.crc = from.crc
           /\ new.data_iteration = from.data_iteration
           /\ \A f \in Fields : f < pos + 1 => new.data[f] = from.data[f]
           /\ pos = NFields => Valid(new) /\ new.data = from.data
  <1>1. old.data \in [Fields -> Int] /\ from.data \in [Fields -> Int]
    BY DEF Image
  <1>2. /\ new.crc = from.crc
        /\ new.data_iteration = from.data_iteration
        /\ new.data \in [Fields -> Int]
        /\ \A f \in Fields : new.data[f] = IF f = pos THEN from.data[f]
                                                     ELSE old.data[f]
    <2> HIDE DEF Fields
    <2>1. CASE pos = 0
      <3>1. 0 \notin Fields
        BY RootBlockAssumption DEF Fields
      <3> QED BY <1>1, <2>1, <3>1 DEF Programmed, Image
    <2>2. CASE pos # 0
      <3>1. pos \in Fields /\ pos > 0
        BY <2>2, RootBlockAssumption DEF Fields
      <3>2. new = [old EXCEPT !.data = [old.data EXCEPT ![pos] = from.data[pos]]]
        BY <1>1, <2>2 DEF Programmed, Image
      <3> QED BY <1>1, <3>1, <3>2 DEF Image
    <2> QED BY <2>1, <2>2
  <1>3. \A f \in Fields : f < pos + 1 => new.data[f] = from.data[f]
    BY <1>2
  <1>4. ASSUME pos = NFields PROVE Valid(new) /\ new.data = from.data
    <2>1. \A f \in Fields : new.data[f] = from.data[f]
      BY <1>3, <1>4, RootBlockAssumption
    <2>2. new.data = from.data
      <3> HIDE DEF Fields
      <3> QED BY <1>1, <1>2, <2>1, SameFunction
    <2> QED BY <1>2, <2>2 DEF Valid, Sum
  <1> QED
    BY <1>2, <1>3, <1>4

(* So for a page not modified since its write began, counted as synced or not. *)
LEMMA WrittenWhole ==
    ASSUME TypeOK, WrittenSoFar, g_root_block_sync_state # "MODIFIED",
           writing.src = "root_page", Program
    PROVE  LET new == flash'[writing.dest]
           IN  /\ writing.pos = NFields => /\ Valid(new)
                                           /\ new.data = root_page.data
               /\ new.crc = root_page.crc
               /\ new.data_iteration = root_page.data_iteration
               /\ \A f \in Fields : f < writing.pos + 1 =>
                      new.data[f] = root_page.data[f]
  <1>1. /\ flash[writing.dest] \in Image /\ root_page \in Image
        /\ writing.pos \in 0 .. NFields /\ Valid(root_page)
        /\ flash_state # "IDLE"
    BY DEF TypeOK, WrittenSoFar, Program
  <1>2. flash'[writing.dest] =
            Programmed(flash[writing.dest], root_page, writing.pos)
    BY DEF Program, Source, TypeOK
  <1> QED
    BY <1>1, <1>2, ProgrammedSoFar DEF WrittenSoFar

(* With overlapping modifications, but neither raw writes nor STARTUP during a  *)
(* write: a page that counts as synced is what cmd_init would adopt.            *)
LEMMA DurableKept ==
    ASSUME MaxVersion < IterMod, TypeOK, IterationsCounted,
           Durable, disturbed' \subseteq {"overlap", "early"}, [Next]_vars
    PROVE  Durable'
  <1> USE DEF Durable, WritingIsBusy
  <1>1. disturbed \subseteq {"overlap", "early"}
    BY OverlapRemembered
  <1>2. /\ _root_page \in Sectors /\ Other(_root_page) \in Sectors
        /\ Other(_root_page) # _root_page
        /\ version \in Nat /\ version <= MaxVersion
        /\ g_root_block_sync_state \in {"SYNCED", "MODIFIED", "WRITING"}
        /\ flash \in [Sectors -> Image]
    BY OtherSector, RootBlockAssumption DEF TypeOK
  <1>3. ASSUME NEW changed \in (SUBSET Fields) \ {{}}, Modify(changed)
        PROVE  Durable'
    <2>1. /\ g_root_block_sync_state' = "MODIFIED"
          /\ UNCHANGED <<flash, _root_page, flash_state, writing>>
          /\ root_page'.data_iteration = root_page.data_iteration
      BY <1>3, ModifyRoot DEF Modify
    <2> QED BY <2>1 DEF WriterWritesPage, WrittenSoFar, SyncedIsDurable
  <1>4. ASSUME sync_root_block_immediate
        PROVE  Durable'
    <2>1. /\ g_root_block_sync_state = "MODIFIED"
          /\ g_root_block_sync_state' = "WRITING"
          /\ flash_state' = "ERASING" /\ UNCHANGED flash
          /\ _root_page' = Other(_root_page)
          /\ writing' = [dest |-> _root_page', src |-> "root_page", pos |-> 0]
          /\ root_page' = Stamped(root_page)
      BY <1>4 DEF sync_root_block_immediate, flash_write_page
    <2>2. /\ root_page'.data_iteration = NextIteration /\ Valid(root_page')
      BY <2>1, StampedImage
    <2>3. NextIteration = flash[_root_page].data_iteration + 1
      <3>1. version - Pending < MaxVersion
        BY <1>2, <2>1, RootBlockAssumption DEF Pending
      <3> QED BY <3>1, NextIterationFollows
    <2>4. Other(_root_page') = _root_page
      BY <1>2, <2>1, OtherSector
    <2>5. WriterWritesPage'
      BY <2>1, <2>2, <2>3, <2>4 DEF WriterWritesPage
    <2>6. WrittenSoFar' /\ SyncedIsDurable'
      BY <2>1, <2>2 DEF WrittenSoFar, SyncedIsDurable
    <2> QED BY <2>1, <2>5, <2>6
  <1>5. ASSUME NEW data \in RawData, WriteRaw(data) PROVE FALSE
    BY <1>5 DEF WriteRaw
  <1>6. ASSUME Erase
        PROVE  Durable'
    <2>1. /\ flash_state = "ERASING" /\ flash_state' = "WRITING"
          /\ writing.dest = _root_page
          /\ flash' = [flash EXCEPT ![_root_page] = ErasedSector]
          /\ UNCHANGED <<root_page, _root_page, writing, g_root_block_sync_state,
                         disturbed>>
      BY <1>6 DEF Erase, WriterWritesPage
    <2>2. flash'[Other(_root_page)] = flash[Other(_root_page)]
      BY <1>2, <2>1
    <2>3. WriterWritesPage'
      BY <2>1, <2>2 DEF WriterWritesPage
    <2>4. WrittenSoFar'
      BY <2>1 DEF WrittenSoFar
    <2>5. SyncedIsDurable'
      BY <1>6, <2>1 DEF Erase, WriterWritesPage, SyncedIsDurable
    <2> QED BY <2>1, <2>3, <2>4, <2>5
  <1>7. ASSUME Program
        PROVE  Durable'
    <2> DEFINE new == Programmed(flash[_root_page], Source, writing.pos)
    <2>1. /\ flash_state = "WRITING"
          /\ writing.dest = _root_page /\ writing.src = "root_page"
          /\ g_root_block_sync_state = "SYNCED" => "early" \in disturbed
          /\ disturbed' = disturbed
          /\ root_page.data_iteration = flash[Other(_root_page)].data_iteration + 1
          /\ flash' = [flash EXCEPT ![_root_page] = new]
          /\ UNCHANGED <<root_page, _root_page>>
      BY <1>2, <1>7 DEF Program, WriterWritesPage
    <2>2. flash'[Other(_root_page)] = flash[Other(_root_page)]
      BY <1>2, <2>1
    <2> HIDE DEF new
    <2>3. CASE writing.pos = NFields
      <3>1. /\ flash_state' = "IDLE" /\ writing' = NotWriting
            /\ g_root_block_sync_state' =
                   SyncStateAfterWrite(g_root_block_sync_state)
        BY <1>7, <2>3 DEF Program
      <3>2. WriterWritesPage' /\ WrittenSoFar'
        BY <2>1, <3>1 DEF WriterWritesPage, WrittenSoFar, SyncStateAfterWrite
      <3>3. SyncedIsDurable'
        <4> SUFFICES ASSUME g_root_block_sync_state' = "SYNCED"
                     PROVE  flash'[Adopted(flash')].data = root_page'.data
          BY DEF SyncedIsDurable
        <4>1. g_root_block_sync_state # "MODIFIED"
          BY <2>1, <3>1 DEF SyncStateAfterWrite
        <4>2. /\ Valid(flash'[_root_page])
              /\ flash'[_root_page].data = root_page.data
              /\ flash'[_root_page].data_iteration = root_page.data_iteration
          BY <1>7, <2>1, <2>3, <4>1, WrittenWhole
        <4>3. \A t \in Sectors : flash'[t].data_iteration \in Int
          BY <1>2, <2>1, <2>2, <4>2, IterationsInt
        <4>4. flash'[Other(_root_page)].data_iteration
                 < flash'[_root_page].data_iteration
          BY <1>2, <2>1, <2>2, <4>2, IterationsInt
        <4>5. Adopted(flash') = _root_page
          BY <1>2, <4>2, <4>3, <4>4, AdoptsNewer
        <4> QED BY <2>1, <4>2, <4>5
      <3> QED BY <3>1, <3>2, <3>3 DEF SyncStateAfterWrite
    <2>4. CASE writing.pos # NFields
      <3>1. /\ flash_state' = flash_state
            /\ writing' = [writing EXCEPT !.pos = writing.pos + 1]
            /\ g_root_block_sync_state' = g_root_block_sync_state
        BY <1>7, <2>4 DEF Program
      <3>2. /\ writing'.dest = _root_page /\ writing'.src = "root_page"
            /\ writing'.pos = writing.pos + 1
        BY <2>1, <3>1 DEF TypeOK
      <3>3. WriterWritesPage' /\ SyncedIsDurable'
        BY <2>1, <2>2, <3>1, <3>2 DEF WriterWritesPage, SyncedIsDurable
      <3>4. WrittenSoFar'
        BY <1>7, <2>1, <3>1, <3>2, WrittenWhole DEF WrittenSoFar
      <3> QED BY <2>1, <3>1, <3>3, <3>4
    <2> QED BY <2>3, <2>4
  <1>8. ASSUME Startup
        PROVE  Durable'
    <2>1. flash_state = "IDLE"
      BY <1>8 DEF Startup
    <2>2. /\ root_page' = flash[Adopted(flash)]
          /\ UNCHANGED <<flash, g_root_block_sync_state, flash_state>>
      BY <1>8 DEF Startup, cmd_init
    <2> QED
      BY <2>1, <2>2 DEF WriterWritesPage, WrittenSoFar, SyncedIsDurable
  <1>9. ASSUME Restart
        PROVE  Durable'
    <2>1. /\ root_page' = flash'[Adopted(flash')]
          /\ g_root_block_sync_state' = "SYNCED" /\ flash_state' = "IDLE"
      BY <1>9 DEF Restart, cmd_init
    <2> QED
      BY <2>1 DEF WriterWritesPage, WrittenSoFar, SyncedIsDurable
  <1>10. ASSUME EmmcWriteComplete
         PROVE  Durable'
    <2>1. /\ UNCHANGED <<root_page, flash, _root_page, flash_state, writing>>
          /\ g_root_block_sync_state' =
                 SyncStateAfterWrite(g_root_block_sync_state)
          /\ disturbed \subseteq disturbed'
          /\ g_root_block_sync_state = "WRITING" => "early" \in disturbed'
      BY <1>10 DEF EmmcWriteComplete
    <2>2. WriterWritesPage' /\ WrittenSoFar' /\ WritingIsBusy'
      BY <2>1 DEF WriterWritesPage, WrittenSoFar, SyncStateAfterWrite
    <2>3. SyncedIsDurable'
      BY <1>1, <2>1 DEF SyncedIsDurable, SyncStateAfterWrite
    <2> QED BY <2>2, <2>3
  <1>11. CASE UNCHANGED vars
    BY <1>1, <1>11 DEF vars, WriterWritesPage, WrittenSoFar, SyncedIsDurable
  <1> QED
    BY <1>3, <1>4, <1>5, <1>6, <1>7, <1>8, <1>9, <1>10, <1>11 DEF Next

LEMMA InitSectors ==
    ASSUME Init
    PROVE  /\ flash[2].data_iteration = 0 /\ flash[1].data_iteration = -1
           /\ root_page = flash[2] /\ block.data_iteration = 0
           /\ block.data = [f \in Fields |-> 0]
           /\ flash[2].data = [f \in Fields |-> 0]
           /\ Valid(flash[2]) /\ ~Valid(flash[1])
  <1> DEFINE zeros == [f \in Fields |-> 0]
  <1>1. /\ flash[2] = Sealed(0, zeros) /\ flash[1] = ErasedSector
        /\ root_page = flash[2] /\ block = Sealed(0, zeros)
    BY DEF Init
  <1> HIDE DEF zeros
  <1>2. /\ Sealed(0, zeros).data_iteration = 0 /\ Sealed(0, zeros).data = zeros
        /\ Valid(Sealed(0, zeros))
    BY DEF Sealed, Valid, Sum
  <1>3. ErasedSector.data_iteration = -1
    BY DEF ErasedSector
  <1> QED
    BY <1>1, <1>2, <1>3, ErasedImage DEF zeros

(* What counts as synced is durable: a restart would find in the flash what is  *)
(* in RAM, even if modifications have overlapped the writes before. Once the    *)
(* completion of an eMMC write has been taken for the page's (commands.c:729),  *)
(* so it is whenever the flash is idle.                                         *)
THEOREM SyncedDurable ==
    ASSUME MaxVersion < IterMod
    PROVE  Spec => []SyncedIsDurable
  <1> DEFINE Inv == TypeOK /\ IterationsCounted /\ DurableInv
  <1>1. Init => Inv
    <2> SUFFICES ASSUME Init PROVE Inv
      OBVIOUS
    <2>1. TypeOK
      BY InitInvariant DEF IInv
    <2>2. /\ flash[2].data_iteration = 0 /\ flash[1].data_iteration = -1
          /\ root_page = flash[2] /\ block.data_iteration = 0
          /\ Valid(flash[2]) /\ ~Valid(flash[1])
      BY InitSectors
    <2>3. IterationsCounted
      BY <2>2 DEF Init, IterationsCounted, Pending
    <2>4. DurableInv
      BY <2>2 DEF Init, DurableInv, Durable, WriterWritesPage, WrittenSoFar,
                  WritingIsBusy, SyncedIsDurable, Adopted
    <2> QED BY <2>1, <2>3, <2>4
  <1>2. Inv /\ [Next]_vars => Inv'
    BY TypesKept, IterationsCountedKept, DurableKept, OverlapRemembered
       DEF DurableInv
  <1>3. Inv => SyncedIsDurable
    BY DEF DurableInv, Durable, SyncedIsDurable
  <1> QED
    BY <1>1, <1>2, <1>3, PTL DEF Spec

------------------------------------------------------------------------------
(* The root block implements the store of RootStore: as long as STARTUP keeps   *)
(* out of the writes and no modification overlaps one.                          *)

(* The whole sector that is not being written. *)
Settled == IF flash_state = "IDLE" THEN _root_page ELSE Other(_root_page)

LEMMA SettledIsAdopted ==
    ASSUME IInv, InUseIsNewest, disturbed \subseteq {"raw", "early"}
    PROVE  /\ Settled \in Sectors
           /\ Valid(flash[Settled]) /\ Older(Other(Settled))
           /\ Adopted(flash) = Settled
  <1>1. _root_page \in Sectors /\ TypeOK
    BY DEF IInv, TypeOK
  <1>2. Settled \in Sectors /\ Valid(flash[Settled])
    BY <1>1, OtherSector DEF Settled, IInv, InUseIsWhole, WriterSparesOther,
                             InUseIsNewest
  <1>3. Older(Other(Settled))
    BY <1>1, OtherSector DEF Settled, InUseIsNewest
  <1>4. Other(Other(Settled)) = Settled
    BY <1>2, OtherSector
  <1>5. \A t \in Sectors : flash[t].data_iteration \in Int
    BY <1>1, IterationsInt
  <1> QED
    BY <1>2, <1>3, <1>4, <1>5, AdoptsNewer DEF Older

LEMMA StartNewest ==
    ASSUME IInv, InUseIsNewest, disturbed \subseteq {"raw", "early"},
           NEW src \in {"root_page", "block"}, flash_write_page(src),
           Source'.data_iteration = flash[_root_page].data_iteration + 1,
           block'.data \in RawData
    PROVE  InUseIsNewest' /\ UNCHANGED flash
  <1>1. /\ flash_state = "IDLE" /\ flash_state' = "ERASING" /\ UNCHANGED flash
        /\ writing'.dest = _root_page' /\ _root_page' = Other(_root_page)
    BY DEF flash_write_page
  <1>2. Other(_root_page') = _root_page /\ flash[_root_page].data_iteration \in Int
    BY <1>1, OtherSector, IterationsInt DEF IInv, TypeOK
  <1>3. Older(Other(_root_page))
    BY <1>1 DEF InUseIsNewest
  <1>4. Older(writing.dest)'
    BY <1>1, <1>2, <1>3 DEF Older
  <1> QED
    BY <1>1, <1>2, <1>4 DEF InUseIsNewest

LEMMA NewestKept ==
    ASSUME MaxVersion < IterMod, IInv, IInv', IterationsCounted, InUseIsNewest,
           disturbed' \subseteq {"raw", "early"}, [Next]_vars
    PROVE  InUseIsNewest' /\ [Store!Next]_(Store!store)
  <1> DEFINE disk == flash[Adopted(flash)].data
             mem == root_page.data
  <1>1. disturbed \subseteq {"raw", "early"}
    BY OverlapRemembered
  <1>2. /\ Settled \in Sectors /\ Valid(flash[Settled])
        /\ Older(Other(Settled)) /\ Adopted(flash) = Settled
    BY <1>1, SettledIsAdopted
  <1>3. /\ TypeOK /\ TypeOK'
        /\ _root_page \in Sectors /\ Other(_root_page) \in Sectors
        /\ Other(_root_page) # _root_page
        /\ Other(Other(_root_page)) = _root_page
        /\ flash \in [Sectors -> Image]
    BY OtherSector DEF IInv, TypeOK
  <1>4. /\ version \in Nat /\ version <= MaxVersion /\ Pending \in {0, 1}
        /\ g_root_block_sync_state = "MODIFIED" => Pending = 1
    BY <1>3, RootBlockAssumption DEF TypeOK, Pending
  <1>5. ASSUME NEW changed \in (SUBSET Fields) \ {{}}, Modify(changed)
        PROVE  InUseIsNewest' /\ Store!Modify
    <2>1. /\ UNCHANGED <<flash, _root_page, flash_state, writing, block>>
          /\ version' = version + 1
          /\ root_page'.data_iteration = root_page.data_iteration
          /\ mem' = [f \in Fields |-> IF f \in changed THEN version' ELSE mem[f]]
      BY <1>3, <1>5, ModifyRoot DEF Modify
    <2>2. Source'.data_iteration = Source.data_iteration
      BY <2>1 DEF Source
    <2>3. InUseIsNewest'
      BY <1>1, <2>1, <2>2 DEF InUseIsNewest, Older
    <2>4. mem' = [f \in Fields |-> IF mem'[f] = mem[f] THEN mem[f] ELSE version']
      <3> HIDE DEF mem
      <3> QED BY <2>1
    <2>5. disk' = disk
      BY <2>1
    <2> QED BY <2>1, <2>3, <2>4, <2>5 DEF Store!Modify
  <1>6. ASSUME sync_root_block_immediate
        PROVE  InUseIsNewest' /\ UNCHANGED Store!store
    <2>1. /\ root_page' = Stamped(root_page) /\ flash_write_page("root_page")
          /\ UNCHANGED <<block, version>> /\ writing'.src = "root_page"
          /\ g_root_block_sync_state = "MODIFIED"
      BY <1>6 DEF sync_root_block_immediate, flash_write_page
    <2>2. /\ root_page'.data_iteration = NextIteration
          /\ root_page'.data = root_page.data
      BY <2>1, StampedImage
    <2>3. version - Pending < MaxVersion
      BY <1>4, <2>1, RootBlockAssumption
    <2>4. Source'.data_iteration = flash[_root_page].data_iteration + 1
      BY <1>3, <2>1, <2>2, <2>3, NextIterationFollows DEF Source
    <2>5. InUseIsNewest' /\ UNCHANGED flash
      BY <1>1, <2>1, <2>4, StartNewest DEF InUseIsNewest
    <2> QED BY <2>1, <2>2, <2>5 DEF Store!store
  <1>7. ASSUME NEW data \in RawData, WriteRaw(data)
        PROVE  InUseIsNewest' /\ Store!Modify
    <2>1. /\ block' = Stamped([data |-> data]) /\ flash_write_page("block")
          /\ UNCHANGED root_page /\ version' = version + 1
          /\ version < MaxVersion /\ writing'.src = "block"
      BY <1>7 DEF WriteRaw, flash_write_page
    <2>2. /\ block'.data_iteration = NextIteration /\ block'.data = data
      BY <2>1, StampedImage
    <2>3. version - Pending < MaxVersion
      BY <1>4, <2>1, RootBlockAssumption
    <2>4. Source'.data_iteration = flash[_root_page].data_iteration + 1
      BY <1>3, <2>1, <2>2, <2>3, NextIterationFollows DEF Source
    <2>5. InUseIsNewest' /\ UNCHANGED flash
      BY <1>1, <2>1, <2>2, <2>4, StartNewest
    <2>6. mem' = [f \in Fields |-> IF mem'[f] = mem[f] THEN mem[f] ELSE version']
      <3>1. mem \in [Fields -> Int] /\ mem' = mem
        BY <1>3, <2>1 DEF TypeOK, Image
      <3> HIDE DEF mem
      <3> QED BY <3>1
    <2> QED BY <2>1, <2>5, <2>6 DEF Store!Modify
  <1>8. ASSUME Erase
        PROVE  InUseIsNewest' /\ UNCHANGED Store!store
    <2>1. /\ flash_state = "ERASING" /\ flash_state' = "WRITING"
          /\ writing.dest = _root_page
          /\ flash' = [flash EXCEPT ![_root_page] = ErasedSector]
          /\ UNCHANGED <<root_page, _root_page, writing, block, version>>
      BY <1>1, <1>8 DEF Erase, InUseIsNewest
    <2>2. /\ flash'[_root_page] = ErasedSector
          /\ flash'[Other(_root_page)] = flash[Other(_root_page)]
      BY <1>3, <2>1
    <2>3. InUseIsNewest'
      BY <1>1, <2>1, <2>2, ErasedImage DEF InUseIsNewest, Older, Source
    <2>4. Adopted(flash') = Other(_root_page) /\ Adopted(flash) = Other(_root_page)
      <3>1. Settled = Other(_root_page)
        BY <2>1 DEF Settled
      <3>2. \A t \in Sectors : flash'[t].data_iteration \in Int
        BY <1>3, <2>1, ErasedImage DEF Image
      <3> QED BY <1>2, <1>3, <2>2, <3>1, <3>2, ErasedImage, AdoptsNewer
    <2> QED BY <2>1, <2>2, <2>3, <2>4 DEF Store!store
  <1>9. ASSUME Program
        PROVE  InUseIsNewest' /\ [Store!Next]_(Store!store)
    <2> DEFINE old == flash[_root_page]
               new == flash'[_root_page]
    <2>1. /\ flash_state = "WRITING" /\ writing.dest = _root_page
          /\ flash[Other(_root_page)].data_iteration < Source.data_iteration
          /\ flash' = [flash EXCEPT ![_root_page] =
                                     Programmed(old, Source, writing.pos)]
          /\ UNCHANGED <<root_page, _root_page, block, version>>
      BY <1>1, <1>9 DEF Program, InUseIsNewest
    <2>2. /\ old \in Image /\ Source \in Image /\ Valid(Source)
          /\ new = Programmed(old, Source, writing.pos)
          /\ flash'[Other(_root_page)] = flash[Other(_root_page)]
          /\ writing.pos \in 0 .. NFields
          /\ writing.pos > 0 => /\ old.crc = Source.crc
                                /\ old.data_iteration = Source.data_iteration
          /\ \A f \in Fields : f < writing.pos => old.data[f] = Source.data[f]
      BY <1>3, <2>1 DEF IInv, InUseWillBeWhole, Source, TypeOK
    <2> HIDE DEF old, new
    <2>3. /\ new.data_iteration = Source.data_iteration
          /\ writing.pos = NFields => Valid(new) /\ new.data = Source.data
      BY <2>2, ProgrammedSoFar
    <2>4. /\ Source.data_iteration \in Int
          /\ flash[Other(_root_page)].data_iteration \in Int
          /\ \A t \in Sectors : flash'[t].data_iteration \in Int
      <3>1. \A t \in Sectors : flash'[t] \in Image
        BY <1>3 DEF TypeOK
      <3> QED BY <1>3, <2>2, <3>1 DEF Image
    <2>5. disk = flash[Other(_root_page)].data
      BY <1>2, <2>1 DEF Settled
    <2>6. CASE writing.pos = NFields
      <3>1. flash_state' = "IDLE"
        BY <1>9, <2>6 DEF Program
      <3>2. InUseIsNewest'
        BY <1>1, <1>3, <2>1, <2>2, <2>3, <2>4, <3>1 DEF InUseIsNewest, Older, new
      <3>3. Adopted(flash') = _root_page
        BY <1>3, <2>1, <2>2, <2>3, <2>4, <2>6, AdoptsNewer DEF new
      <3>4. disk' = Source.data
        BY <2>1, <2>3, <2>6, <3>3 DEF new
      <3>5. CASE writing.src = "root_page"
        BY <2>1, <3>2, <3>4, <3>5 DEF Source, Store!Next, Store!Persist
      <3>6. CASE writing.src # "root_page"
        <4>1. disk' \in RawData
          BY <1>1, <3>4, <3>6 DEF Source, InUseIsNewest
        <4> QED BY <2>1, <3>2, <4>1 DEF Store!Next, Store!Overwrite
      <3> QED BY <3>5, <3>6
    <2>7. CASE writing.pos # NFields
      <3>1. /\ flash_state' = "WRITING"
            /\ writing'.dest = _root_page /\ writing'.src = writing.src
        BY <1>3, <1>9, <2>1, <2>7 DEF Program, TypeOK
      <3>2. ~Valid(new)
        <4>1. (IInv /\ flash_state = "WRITING" => ~Valid(flash[writing.dest]))'
          BY HalfWrittenNotWhole, PTL
        <4> QED BY <2>1, <3>1, <4>1 DEF new
      <3>3. Source' = Source
        BY <2>1, <3>1 DEF Source
      <3>4. InUseIsNewest'
        BY <1>1, <2>1, <2>2, <3>1, <3>2, <3>3 DEF InUseIsNewest, Older, new
      <3>5. Adopted(flash') = Other(_root_page)
        <4>1. Valid(flash'[Other(_root_page)])
          BY <1>2, <2>1, <2>2 DEF Settled
        <4> QED
          BY <1>3, <2>4, <3>2, <4>1, AdoptsNewer DEF new
      <3>6. disk' = disk
        BY <2>1, <2>2, <2>5, <3>5
      <3> QED BY <2>1, <3>4, <3>6 DEF Store!store
    <2> QED BY <2>6, <2>7
  <1>10. ASSUME Startup
         PROVE  InUseIsNewest' /\ Store!Reread
    <2>1. /\ flash_state = "IDLE" /\ _root_page' = Settled
          /\ root_page' = flash[Settled]
          /\ UNCHANGED <<flash, flash_state, writing, block, version>>
      BY <1>1, <1>2, <1>10 DEF Startup, cmd_init
    <2>2. InUseIsNewest'
      BY <1>1, <1>2, <2>1 DEF InUseIsNewest, Older
    <2> QED BY <1>2, <2>1, <2>2 DEF Store!Reread
  <1>11. ASSUME Restart
         PROVE  InUseIsNewest' /\ Store!Reread
    <2>1. /\ flash_state' = "IDLE" /\ _root_page' = Adopted(flash')
          /\ root_page' = flash'[Adopted(flash')]
          /\ UNCHANGED <<block, version>>
          /\ \/ flash' = flash
             \/ /\ flash_state = "ERASING"
                /\ flash' = [flash EXCEPT ![writing.dest] = ErasedSector]
      BY <1>11 DEF Restart, cmd_init
    <2>2. CASE flash' = flash
      BY <1>1, <1>2, <2>1, <2>2 DEF InUseIsNewest, Older, Store!Reread
    <2>3. CASE /\ flash_state = "ERASING"
               /\ flash' = [flash EXCEPT ![writing.dest] = ErasedSector]
      <3>1. writing.dest = _root_page /\ Settled = Other(_root_page)
        BY <1>1, <2>3 DEF InUseIsNewest, Settled
      <3>2. /\ flash'[_root_page] = ErasedSector
            /\ flash'[Settled] = flash[Settled]
        BY <1>3, <2>3, <3>1
      <3>3. Adopted(flash') = Settled
        <4>1. \A t \in Sectors : flash'[t].data_iteration \in Int
          BY <1>3, <2>3, ErasedImage DEF Image
        <4> QED BY <1>2, <1>3, <3>1, <3>2, <4>1, ErasedImage, AdoptsNewer
      <3>4. InUseIsNewest'
        BY <1>1, <1>3, <2>1, <3>1, <3>2, <3>3, ErasedImage DEF InUseIsNewest, Older
      <3> QED BY <1>2, <2>1, <3>2, <3>3, <3>4 DEF Store!Reread
    <2> QED BY <2>1, <2>2, <2>3
  <1>12. ASSUME EmmcWriteComplete
         PROVE  InUseIsNewest' /\ UNCHANGED Store!store
    <2>1. UNCHANGED <<root_page, flash, _root_page, flash_state, writing, block,
                      version>>
      BY <1>12 DEF EmmcWriteComplete
    <2> QED BY <1>1, <2>1 DEF InUseIsNewest, Older, Source, Store!store
  <1>13. CASE UNCHANGED vars
    BY <1>1, <1>13 DEF vars, InUseIsNewest, Older, Source, Store!store
  <1> QED
    BY <1>5, <1>6, <1>7, <1>8, <1>9, <1>10, <1>11, <1>12, <1>13
       DEF Next, Store!Next

(* To whoever restarts the device, erasing and programming piece by piece look  *)
(* like one indivisible update: memory_layout.h, "u16 data_iteration; //larger  *)
(* is newer".                                                                   *)
THEOREM UpdatesAreAtomic ==
    ASSUME MaxVersion < IterMod
    PROVE  Spec => AtomicUpdate
  <1> DEFINE Inv == Protected /\ TypeOK /\ IterationsCounted /\ InUseIsNewest
             Step == [disturbed' \subseteq {"raw", "early"} => Store!Next]_(Store!store)
  <1>1. Init => Inv /\ Store!Init
    <2> SUFFICES ASSUME Init PROVE Inv /\ Store!Init
      OBVIOUS
    <2>1. Protected /\ TypeOK
      BY InitInvariant DEF IInv, Protected
    <2>2. IterationsCounted
      BY InitSectors DEF Init, IterationsCounted, Pending
    <2>3. InUseIsNewest
      BY InitSectors DEF Init, InUseIsNewest, Older, RawData
    <2>4. Store!Init
      <3>1. Adopted(flash) = 2
        BY InitSectors DEF Adopted
      <3>2. root_page.data = [f \in Fields |-> 0] /\ version = 0
        BY InitSectors DEF Init
      <3>3. \A f \in Fields : root_page.data[f] <= version
        BY <3>2
      <3>4. root_page = flash[2]
        BY InitSectors
      <3> QED BY <3>1, <3>3, <3>4 DEF Store!Init
    <2> QED BY <2>1, <2>2, <2>3, <2>4
  <1>2. Inv /\ [Next]_vars => Inv' /\ Step
    <2> SUFFICES ASSUME Inv, [Next]_vars PROVE Inv' /\ Step
      OBVIOUS
    <2>1. TypeOK' /\ IterationsCounted'
      BY TypesKept, IterationsCountedKept
    <2>2. Protected'
      BY NextKeeps, OverlapRemembered DEF Protected
    <2>3. ASSUME disturbed' \subseteq {"raw", "early"}
          PROVE  InUseIsNewest' /\ [Store!Next]_(Store!store)
      <3>1. IInv /\ IInv'
        BY <2>2, <2>3, OverlapRemembered DEF Protected
      <3> QED BY <2>3, <3>1, NewestKept
    <2>4. InUseIsNewest'
      BY <2>3 DEF InUseIsNewest
    <2> QED BY <2>1, <2>2, <2>3, <2>4
  <1> QED
    BY <1>1, <1>2, PTL DEF Spec, AtomicUpdate
==============================================================================
