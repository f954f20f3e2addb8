---------------------------- MODULE RasterImage ----------------------------
(***************************************************************************)
(* An image on its way to the paper: buildPayload and toGrayscale          *)
(* (capi/src/pd_capi.cpp), then packGrayscale, resampleGray and the bands  *)
(* of GS v 0 (core/src/escpos_encoder.cpp).  Images are functions from     *)
(* 0-based <<x, y>>; a packed row is the set of the bits set in it, which  *)
(* includes those of the last byte beyond the width.                       *)
(*                                                                         *)
(* Band_NoTail is a faulty variant, kept to show that the properties can   *)
(* fail.                                                                   *)
(***************************************************************************)
EXTENDS Integers, Sequences, FiniteSets, FiniteSetsExt, SequencesExt

CONSTANTS MaxWidth, MaxHeight, MaxPixels,   \* of the images
          Targets,     \* widths of the paper, in dots
          MaxRows      \* kMaxRasterRows

VARIABLES request,     \* the raster payload of the C API
          packed,      \* packGrayscale's result
          commands     \* the GS v 0 commands

vars == <<request, packed, commands>>

White == 255
\* A pixel: one shade for the three channels, and how opaque it is.
Pixels == {[shade |-> 0, alpha |-> 0], [shade |-> 0, alpha |-> 255],
           [shade |-> 200, alpha |-> 128], [shade |-> 255, alpha |-> 255]}
Sizes == {s \in (1..MaxWidth) \X (1..MaxHeight) : s[1] * s[2] <= MaxPixels}
Area(w, h) == (0..w - 1) \X (0..h - 1)

\* Numbers 0 .. n - 1 in order.
Upto(n) == [i \in 1..n |-> i - 1]
Clamp(v, lo, hi) == IF v < lo THEN lo ELSE IF v > hi THEN hi ELSE v
\* Integer division as C++ does it, towards zero.
Quot(a, b) == IF a < 0 THEN -((-a) \div b) ELSE a \div b

-----------------------------------------------------------------------------
(* The C API's raster *)

Threshold(given) == IF given = 0 THEN 128 ELSE given
BandOf(given) == IF given = 0 THEN 1024 ELSE given

\* Over white paper, then luma.
ToGray(p) ==
    LET c == (p.shade * p.alpha + 255 * (255 - p.alpha) + 127) \div 255
    IN  (77 * c + 150 * c + 29 * c + 128) \div 256

-----------------------------------------------------------------------------
(* resampleGray *)

\* The source rows, or columns, of row or column i: at least one, all of them existing.
Span(i, src, dst) ==
    LET from == (i * src) \div dst
        to == ((i + 1) * src) \div dst
        last == IF to <= from THEN from + 1 ELSE to
    IN  from..((IF last > src THEN src ELSE last) - 1)

Mean(values, cells) ==
    IF cells = {} THEN 0
    ELSE FoldSet(LAMBDA c, sum : sum + values[c], 0, cells) \div Cardinality(cells)

Resample(gray, sw, sh, dw, dh) ==
    [d \in Area(dw, dh) |-> Mean(gray, Span(d[1], sw, dw) \X Span(d[2], sh, dh))]

-----------------------------------------------------------------------------
(* packGrayscale *)

BytesPerRow(w) == (w + 7) \div 8
ScaledHeight(w, h, target) ==
    LET fitted == (h * target + w \div 2) \div w
    IN  IF fitted = 0 THEN 1 ELSE fitted

FixedThreshold(scaled, threshold) == {d \in DOMAIN scaled : scaled[d] < threshold}

\* Floyd-Steinberg, left to right and top to bottom.
FloydSteinberg(scaled, w, h, threshold) ==
    LET dot(acc, d) ==
            LET old == Clamp(acc.work[d], 0, 255)
                new == IF old < threshold THEN 0 ELSE 255
                error == old - new
                share == {<<<<d[1] + 1, d[2]>>, 7>>, <<<<d[1] - 1, d[2] + 1>>, 3>>,
                          <<<<d[1], d[2] + 1>>, 5>>, <<<<d[1] + 1, d[2] + 1>>, 1>>}
                gets(c) == {s \in share : s[1] = c}
            IN  [ink |-> IF new = 0 THEN acc.ink \cup {d} ELSE acc.ink,
                 work |-> [c \in DOMAIN acc.work |->
                              acc.work[c] + (IF gets(c) = {} THEN 0
                                             ELSE Quot(error * (CHOOSE s \in gets(c) : TRUE)[2], 16))]]
        order == [i \in 1..(w * h) |-> <<(i - 1) % w, (i - 1) \div w>>]
    IN  FoldLeft(dot, [ink |-> {}, work |-> scaled], order).ink

\* Rows of packed bits; setDot puts dot x at bit x of its row.
PackGrayscale(r) ==
    LET h == ScaledHeight(r.size[1], r.size[2], r.target)
        gray == [c \in DOMAIN r.pixels |-> ToGray(r.pixels[c])]
        scaled == Resample(gray, r.size[1], r.size[2], r.target, h)
        t == Threshold(r.threshold)
        ink == IF r.dither THEN FloydSteinberg(scaled, r.target, h, t)
                           ELSE FixedThreshold(scaled, t)
    IN  [rows |-> [y \in 1..h |-> {d[1] : d \in {e \in ink : e[2] = y - 1}}],
         bytesPerRow |-> BytesPerRow(r.target)]

-----------------------------------------------------------------------------
(* The commands *)

Band_NoTail(band, left) == IF left < band THEN 0 ELSE band
Band(band, left) == IF left < band THEN left ELSE band

\* appendBandedRaster: as many GS v 0 commands as it takes.
Banded(p, band) ==
    LET next(acc, i) ==
            LET rows == Band(band, Len(p.rows) - acc.row)
            IN  IF acc.row >= Len(p.rows) THEN acc
                ELSE [row |-> acc.row + rows,
                      out |-> Append(acc.out, [bytesPerRow |-> p.bytesPerRow, rows |-> rows,
                                               data |-> SubSeq(p.rows, acc.row + 1, acc.row + rows)])]
    IN  FoldLeft(next, [row |-> 0, out |-> <<>>], Upto(Len(p.rows))).out

Init ==
    /\ request \in UNION {[size : {s}, pixels : [Area(s[1], s[2]) -> Pixels], target : Targets,
                           dither : BOOLEAN, threshold : {0, 255}, band : {0, 2}] : s \in Sizes}
    /\ packed = [rows |-> <<>>, bytesPerRow |-> 0]
    /\ commands = <<>>

\* A height beyond the field of GS v 0 is refused.
RasterGrayscale ==
    /\ commands = <<>>
    /\ ScaledHeight(request.size[1], request.size[2], request.target) <= MaxRows
    /\ packed' = PackGrayscale(request)
    /\ commands' = Banded(packed', BandOf(request.band))
    /\ UNCHANGED request

Next == RasterGrayscale
Spec == Init /\ [][Next]_vars

-----------------------------------------------------------------------------
(* Properties *)

Encoded == commands # <<>>
Shades == {request.pixels[c] : c \in DOMAIN request.pixels}
Paper(p) == p.alpha = 0 \/ p.shade = White
Ink == UNION {packed.rows[y] : y \in DOMAIN packed.rows}

\* The bands say again exactly the rows of the image, each announces the rows it carries, and
\* none is longer than asked: a printer that counts data by the header never takes image data
\* for commands (appendBandedRaster, appendRasterCommand).
BandsAreTheImage ==
    Encoded => /\ FlattenSeq([i \in DOMAIN commands |-> commands[i].data]) = packed.rows
               /\ \A i \in DOMAIN commands :
                     /\ commands[i].rows = Len(commands[i].data)
                     /\ commands[i].rows \in 1..BandOf(request.band)

\* A blank image prints nothing and a black one prints every dot, at every scale, with either
\* binarisation and no ink in the padding of the last byte (resampleGray, packGrayscale).
FlatStaysFlat ==
    Encoded => /\ (\A p \in Shades : Paper(p)) => Ink = {}
               /\ (\A p \in Shades : p.shade = 0 /\ p.alpha = 255)
                     => \A y \in DOMAIN packed.rows : packed.rows[y] = 0..request.target - 1

\* With the threshold at 255 no ink is lost: whatever is not paper in the source, however the
\* image is shrunk, leaves a dot (resampleGray's boxes leave no row or column out).
FaintestInkSurvives ==
    Encoded /\ request.threshold = 255 /\ (\E p \in Shades : ~Paper(p)) => Ink # {}

=============================================================================
