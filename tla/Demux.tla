-------------------------------- MODULE Demux -------------------------------
(***************************************************************************)
(* The FLV demuxer (src/src/flv.rs) and the loop that calls it             *)
(* (src/src/capture.rs): tags of the recorder in, access units out.        *)
(*                                                                         *)
(* What the recorder means (parameter sets, NAL units) is kept apart from  *)
(* the bytes it writes; the demuxer sees only the bytes.  A tag may end    *)
(* anywhere, in a unit, in a length or between two units.  A four byte     *)
(* start code is one marker, StartCode: a byte of a NAL unit is never      *)
(* mistaken for it, which is the encoder's part.                           *)
(***************************************************************************)
EXTENDS Naturals, SequencesExt

CONSTANTS
  Base,       \* bytes are 0 .. Base - 1; 256 in the code
  Nals,       \* NAL units the recorder may emit: sequences of bytes
  Widths,     \* bytes of a NAL length
  MaxSets,    \* bound: SPS of a record
  MaxNals,    \* bound: NAL units of a picture
  Cuts,       \* numbers of bytes a tag may lack at its end
  StartCode,
  None

ASSUME DemuxAssumption ==
  /\ Base \in Nat \ {0} /\ Base % 32 = 0
  /\ \A n \in Nals : n \in Seq(0 .. Base - 1) /\ Len(n) < Base * Base
  /\ Widths \subseteq 1 .. 4
  /\ MaxSets \in 0 .. 31 /\ MaxNals \in Nat
  /\ 0 \in Cuts /\ Cuts \subseteq Nat
  /\ StartCode \notin Nat

VARIABLES
  at,             \* where the reader thread is
  sps_pps,        \* FlvH264::sps_pps
  nalu_size_len,  \* FlvH264::nalu_size_len
  tag,            \* the tag read last, None before the next one
  au,             \* the access unit returned, or None
  config          \* history: the last record accepted, as it arrived, or None

vars == <<at, sps_pps, nalu_size_len, tag, au, config>>

-----------------------------------------------------------------------------
(* What the recorder writes.                                               *)

\* hasPps: the record has a PPS section.  Without one it has an SPS.
Configs ==
  {c \in [sps: BoundedSeq(Nals, MaxSets), pps: BoundedSeq(Nals, 1),
          hasPps: BOOLEAN, width: Widths] :
     c.hasPps \/ (c.pps = <<>> /\ c.sps # <<>>)}
ASSUME NoneAssumption == None \notin Configs
Pictures == BoundedSeq(Nals, MaxNals)

\* head: what the tag header and the first byte say.  packet: AVCPacketType.
Tags ==
       [head: {"avc"}, packet: {0}, key: {TRUE}, content: Configs, cut: Cuts]
  \cup [head: {"avc"}, packet: {1}, key: BOOLEAN, content: Pictures, cut: Cuts]
  \cup [head: {"audio", "short", "codec"}, packet: {0, 1}, key: {TRUE},
        content: {<<n>> : n \in Nals}, cut: {0}]
  \cup [head: {"avc"}, packet: {2}, key: {TRUE}, content: {<<>>}, cut: {0}]

\* The first n parts, one after the other, and all of them.
First(parts, n) ==
  LET first[k \in 0 .. Len(parts)] == IF k = 0 THEN <<>> ELSE first[k - 1] \o parts[k]
  IN  first[n]
Joined(parts) == First(parts, Len(parts))

\* n without its last j bytes; a number that fits in w bytes; those bytes, the
\* most significant first; units with their lengths.
Shifted(n, j) ==
  LET rest[k \in 0 .. 4] == IF k = 0 THEN n ELSE rest[k - 1] \div Base IN rest[j]
Fits(n, w) == Shifted(n, w) = 0
Put(n, w) == [k \in 1 .. w |-> Shifted(n, w - k) % Base]
Piece(nal, w) == Put(Len(nal), w) \o nal
Pieces(units, w) == [k \in DOMAIN units |-> Piece(units[k], w)]
Prefixed(units, w) == Joined(Pieces(units, w))

\* An AVCDecoderConfigurationRecord, reserved bits set: up to its SPS, and all
\* of it.
SpsPart(c) ==
  <<1, 0, 0, 0, (Base - 4) + (c.width - 1), (Base - 32) + Len(c.sps)>>
    \o Prefixed(c.sps, 2)
Record(c) ==
  SpsPart(c) \o IF c.hasPps THEN <<Len(c.pps)>> \o Prefixed(c.pps, 2) ELSE <<>>

Width == IF config = None THEN 4 ELSE config.width

Body(t) ==
  LET whole == IF t.packet = 0 THEN Record(t.content) ELSE Prefixed(t.content, Width)
  IN  SubSeq(whole, 1, Len(whole) - t.cut)

\* The record a tag brings: one that ends with its SPS has no PPS section.
Arrived(t) ==
  IF Len(Body(t)) > Len(SpsPart(t.content)) THEN t.content
  ELSE [t.content EXCEPT !.pps = <<>>, !.hasPps = FALSE]

-----------------------------------------------------------------------------
(* Parsing.                                                                *)

\* The big-endian number in the w bytes after the first i.
Number(b, i, w) ==
  LET n[k \in 0 .. w] == IF k = 0 THEN 0 ELSE n[k - 1] * Base + b[i + k] IN n[w]

Marked(nal) == <<StartCode>> \o nal

\* A parser: whether it goes on, the bytes it has consumed, what it has put out.
StartAt(i) == [ok |-> TRUE, i |-> i, out |-> <<>>]
Bad == [ok |-> FALSE, i |-> 0, out |-> <<>>]

\* Mutant of Unit: a NAL unit that ends with the tag is taken for truncated.
UnitShort(b, r, w) ==
  LET next == r.i + w + Number(b, r.i, w)
  IN  IF next >= Len(b) THEN Bad
      ELSE [ok |-> TRUE, i |-> next,
            out |-> r.out \o Marked(SubSeq(b, r.i + w + 1, next))]

\* The length that comes next and its unit, of which bytes may be missing.
Unit(b, r, w) ==
  LET next == r.i + w + Number(b, r.i, w)
  IN  IF next > Len(b) THEN Bad
      ELSE [ok |-> TRUE, i |-> next,
            out |-> r.out \o Marked(SubSeq(b, r.i + w + 1, next))]

\* A turn of the loop of avcc_to_annexb, which is over when fewer bytes are left
\* than a length has, or after an error: an empty unit leaves nothing.
Over(src, r, w) == ~r.ok \/ r.i + w > Len(src)
AnnexBTurn(src, r, w) ==
  IF Over(src, r, w) THEN r
  ELSE IF Number(src, r.i, w) = 0 THEN [r EXCEPT !.i = @ + w]
  ELSE Unit(src, r, w)

\* avcc_to_annexb: each turn consumes a byte or more.
AnnexB(src, w) ==
  LET turn[k \in 0 .. Len(src)] ==
        IF k = 0 THEN StartAt(0) ELSE AnnexBTurn(src, turn[k - 1], w)
  IN  turn[CHOOSE k \in 0 .. Len(src) : Over(src, turn[k], w)]

\* A turn of the two loops of parse_avcc.
SetTurn(rec, r) == IF ~r.ok \/ r.i + 2 > Len(rec) THEN Bad ELSE Unit(rec, r, 2)

\* The loops: count parameter sets after the first i bytes.
ParameterSets(rec, i, count) ==
  LET turn[k \in 0 .. count] ==
        IF k = 0 THEN StartAt(i) ELSE SetTurn(rec, turn[k - 1])
  IN  turn[count]

\* parse_avcc: a record may end after its SPS.
ParseAvcc(rec) ==
  LET sps == ParameterSets(rec, 6, rec[6] % 32)
      pps == ParameterSets(rec, sps.i + 1, rec[sps.i + 1])
  IN  IF Len(rec) < 7 \/ ~sps.ok THEN Bad
      ELSE IF sps.i >= Len(rec) THEN sps
      ELSE IF pps.ok THEN [pps EXCEPT !.out = sps.out \o @] ELSE Bad

\* Mutant of SizeLen: the mask takes in a reserved bit.
SizeLenWide(rec) == IF Len(rec) < 7 THEN nalu_size_len ELSE (rec[5] % 8) + 1

\* The size of NAL lengths, stored before the rest is parsed.
SizeLen(rec) == IF Len(rec) < 7 THEN nalu_size_len ELSE (rec[5] % 4) + 1

-----------------------------------------------------------------------------
Init ==
  /\ at = "next"
  /\ sps_pps = <<>>
  /\ nalu_size_len = 4
  /\ tag = None
  /\ au = None
  /\ config = None

\* read_tag up to the trailing four bytes.
ReadTag ==
  /\ at = "next"
  /\ tag' \in Tags
  /\ tag'.packet = 1 => \A k \in DOMAIN tag'.content : Fits(Len(tag'.content[k]), Width)
  /\ at' = "tag"
  /\ UNCHANGED <<sps_pps, nalu_size_len, au, config>>

\* The end of the stream, in a tag header (None) or later (an error); or the
\* flag stop, tested before each call of next_au.
EndOfStream ==
  /\ at = "next"
  /\ at' = "ended"
  /\ UNCHANGED <<sps_pps, nalu_size_len, tag, au, config>>

\* Not video, too short, not H.264, or neither a record nor a picture.
Skip ==
  /\ at = "tag"
  /\ tag.head # "avc" \/ tag.packet = 2
  /\ at' = "next"
  /\ tag' = None
  /\ UNCHANGED <<sps_pps, nalu_size_len, au, config>>

\* Mutant of Configure: a later record adds to the sets of the earlier one.
ConfigureMore ==
  /\ at = "tag" /\ tag.head = "avc" /\ tag.packet = 0
  /\ LET rec == Body(tag)
         r   == ParseAvcc(rec)
     IN  /\ nalu_size_len' = SizeLen(rec)
         /\ sps_pps' = IF r.ok THEN sps_pps \o r.out ELSE sps_pps
         /\ config' = IF r.ok THEN Arrived(tag) ELSE config
         /\ at' = IF r.ok THEN "next" ELSE "ended"
  /\ tag' = None
  /\ UNCHANGED au

\* A configuration record; an error of parse_avcc ends the reader.
Configure ==
  /\ at = "tag" /\ tag.head = "avc" /\ tag.packet = 0
  /\ LET rec == Body(tag)
         r   == ParseAvcc(rec)
     IN  /\ nalu_size_len' = SizeLen(rec)
         /\ sps_pps' = IF r.ok THEN r.out ELSE sps_pps
         /\ config' = IF r.ok THEN Arrived(tag) ELSE config
         /\ at' = IF r.ok THEN "next" ELSE "ended"
  /\ tag' = None
  /\ UNCHANGED au

\* Mutant of Picture: the sets are put in front of every picture.
PictureWithSets ==
  /\ at = "tag" /\ tag.head = "avc" /\ tag.packet = 1
  /\ LET r   == AnnexB(Body(tag), nalu_size_len)
         out == sps_pps \o r.out
     IN  /\ at' = IF ~r.ok THEN "ended" ELSE IF out = <<>> THEN "next" ELSE "unit"
         /\ au' = IF at' = "unit" THEN out ELSE None
         /\ tag' = IF at' = "unit" THEN tag ELSE None
  /\ UNCHANGED <<sps_pps, nalu_size_len, config>>

\* A picture: a keyframe gets the parameter sets in front; an empty unit is
\* skipped; an error ends the reader.
Picture ==
  /\ at = "tag" /\ tag.head = "avc" /\ tag.packet = 1
  /\ LET r   == AnnexB(Body(tag), nalu_size_len)
         out == (IF tag.key THEN sps_pps ELSE <<>>) \o r.out
     IN  /\ at' = IF ~r.ok THEN "ended" ELSE IF out = <<>> THEN "next" ELSE "unit"
         /\ au' = IF at' = "unit" THEN out ELSE None
         /\ tag' = IF at' = "unit" THEN tag ELSE None
  /\ UNCHANGED <<sps_pps, nalu_size_len, config>>

\* read_loop passes the unit on (module Capture) and asks for the next.
Return ==
  /\ at = "unit"
  /\ at' = "next"
  /\ au' = None
  /\ tag' = None
  /\ UNCHANGED <<sps_pps, nalu_size_len, config>>

Next == ReadTag \/ EndOfStream \/ Skip \/ Configure \/ Picture \/ Return

Spec == Init /\ [][Next]_vars

-----------------------------------------------------------------------------
(* What the bytes mean.                                                    *)

Stream(units) == Joined([k \in DOMAIN units |-> Marked(units[k])])

MeantSets == IF config = None THEN <<>> ELSE Stream(config.sps) \o Stream(config.pps)
Meant(nal) == IF nal = <<>> THEN <<>> ELSE Marked(nal)
Meanings(units) == [k \in DOMAIN units |-> Meant(units[k])]

\* Exactly the first n units of a picture are in the tag: what is left of it is
\* less than a length.
Brings(t, n) ==
  LET here == Len(First(Pieces(t.content, Width), n))
  IN  /\ here <= Len(Body(t))
      /\ n = Len(t.content) \/ Len(Body(t)) < here + Width

TypeOK ==
  /\ at \in {"next", "tag", "unit", "ended"}
  /\ sps_pps \in Seq((0 .. Base - 1) \cup {StartCode})
  /\ nalu_size_len \in 1 .. 4
  /\ tag = None \/ tag \in Tags
  /\ au = None \/ au \in Seq((0 .. Base - 1) \cup {StartCode}) \ {<<>>}
  /\ config = None \/ config \in Configs

\* While the reader runs, the parameter sets and the length size it works with
\* are those of one and the same record, the last one, whatever sequence of
\* records, cut anywhere or whole, came before.  A record that lacks bytes is
\* an error, with one exception, which parse_avcc accepts as it is: one that
\* ends right after its SPS, whose PPS are then missing (flv.rs:121-124).
SetsCurrent == at # "ended" => sps_pps = MeantSets /\ nalu_size_len = Width

\* "keyframe (includes SPS/PPS when set)" (PROTOCOL.md:41): an access unit
\* is NAL units of its picture, from the first on, in order and none cut short,
\* after the current parameter sets if and only if it is a keyframe; before a
\* first record there are none to put in front.  All units of the picture are
\* there, unless the tag ended between two units or within the next length:
\* avcc_to_annexb serves such a picture without the units that are missing
\* (flv.rs:149), and no other that lacks bytes.
UnitExact ==
  at = "unit" =>
    /\ tag.head = "avc" /\ tag.packet = 1
    /\ \E n \in 0 .. Len(tag.content) :
         /\ Brings(tag, n)
         /\ au = (IF tag.key THEN MeantSets ELSE <<>>) \o First(Meanings(tag.content), n)

\* Since one error ends the video of the session (read_loop), only a tag that
\* lacks bytes may cause one; and a whole picture is never swallowed.
WholeTagsServed ==
  [][at = "tag" /\ tag.cut = 0 =>
       /\ at' # "ended"
       /\ tag.head = "avc" /\ tag.packet = 1 /\ (\E k \in DOMAIN tag.content : tag.content[k] # <<>>)
            => at' = "unit"]_vars

=============================================================================
