------------------------------ MODULE XGlxWire ------------------------------
(***************************************************************************)
(* The wire side of GLX: the rendering commands packed into the Render and *)
(* RenderLarge requests, the decoder each opcode reaches and the bytes it  *)
(* reads, and the requests that ask the GL for values.                     *)
(*                                                                         *)
(* Abstracted: what a command means to the GL.  A decoder is the length it *)
(* asks for before it touches the command, the end of the fields it then   *)
(* reads, and the array behind them: where it starts, how wide an element  *)
(* is, and what decides how many are taken.  A command with two arrays has *)
(* two entries.  The values a decoder copies out of the command belong to  *)
(* the server; how many of the copies the GL looks at is the GL's.         *)
(***************************************************************************)
EXTENDS Integers, FiniteSets, FiniteSetsExt

Decoder(op, need, end, at, unit, take) ==
    [op |-> op, need |-> need, end |-> end, at |-> at, unit |-> unit, take |-> take]

\* Exactly as many bytes as are asked for, or fewer.
Fixed(n, ops) == {Decoder(o, n, n, 0, 0, "fits") : o \in ops}
Shorter(n, end, ops) == {Decoder(o, n, end, 0, 0, "fits") : o \in ops}
\* As many elements as fit behind offset at.
Array(n, at, unit, ops) == {Decoder(o, n, at, at, unit, "fits") : o \in ops}
\* As many as the command announces, when that is a positive number of them
\* and they fit.
Counted(n, unit, ops) == {Decoder(o, n, n, n, unit, "checked") : o \in ops}
\* The same with an i32 cast to usize before it is compared.
Cast(n, unit, ops) == {Decoder(o, n, n, n, unit, "cast") : o \in ops}
\* The GL gets the address behind the fields and the size the command
\* announces, in bytes, as it is.
Trusting(n, ops) == {Decoder(o, n, n, n, 1, "given") : o \in ops}
\* The same when anything came behind offset at; each field before it that is
\* not asked for is read when it came.
Image(n, at, ops) == {Decoder(o, n, n, at, 1, "image") : o \in ops}

(***************************************************************************)
(* The decoders of the rendering commands, by opcode.                      *)
(***************************************************************************)
\* Lists, primitives and bitmaps.
DrawLists ==
    Fixed(3, {7, 8}) \cup Fixed(4, {1, 3, 4, 11, 16}) \cup Fixed(6, {10, 14})
    \cup Fixed(8, {17}) \cup Fixed(12, {6, 12, 13}) \cup Fixed(16, {9})
    \cup Fixed(24, {15}) \cup Trusting(8, {2}) \cup Trusting(24, {5})

\* Colours, indices and normals.
DrawNormals ==
    Fixed(0, {23}) \cup Fixed(1, {22}) \cup Fixed(2, {27}) \cup Fixed(3, {28})
    \cup Fixed(4, {25, 26}) \cup Fixed(6, {32}) \cup Fixed(8, {20, 24, 34, 35})
    \cup Fixed(12, {30, 31}) \cup Fixed(16, {18, 19, 33}) \cup Fixed(24, {29})
    \cup Fixed(32, {21})

\* Raster positions and rectangles.
DrawRaster ==
    Fixed(2, {53}) \cup Fixed(4, {36, 51, 52}) \cup Fixed(6, {40})
    \cup Fixed(8, {47, 50}) \cup Fixed(12, {38, 39})
    \cup Fixed(16, {42, 43, 44, 46}) \cup Fixed(24, {37}) \cup Fixed(32, {41, 45})

\* Texture coordinates and vertices.
DrawVertices ==
    Fixed(4, {63, 71}) \cup Fixed(6, {67}) \cup Fixed(8, {54, 57, 58, 62})
    \cup Fixed(12, {59, 60, 65, 66}) \cup Fixed(16, {55, 56, 61, 70})
    \cup Fixed(24, {64, 72})

\* Evaluators.
DrawEvaluators ==
    Fixed(4, {152, 156}) \cup Fixed(6, {73}) \cup Fixed(8, {76, 151, 154, 158})
    \cup Fixed(12, {155}) \cup Fixed(16, {49, 75, 153}) \cup Fixed(20, {157})
    \cup Fixed(32, {48, 74}) \cup Array(20, 20, 4, {165})
\* A slip: a map of doubles is taken for one of floats, whose fields end earlier.
DrawMapsShort ==
    Fixed(0, {196}) \cup Array(24, 28, 8, {166})


\* Maps and grids.
DrawMaps ==
    Fixed(0, {196}) \cup Fixed(1, {194}) \cup Fixed(8, {193, 195})
    \cup Fixed(12, {169}) \cup Fixed(20, {170, 173}) \cup Fixed(24, {171})
    \cup Fixed(40, {172}) \cup Array(32, 28, 8, {166}) \cup Array(36, 36, 4, {167})
    \cup Array(52, 52, 8, {168})

\* Multitexture coordinates and window positions.
DrawMulti ==
    Fixed(3, {4127}) \cup Fixed(4, {206, 4124}) \cup Fixed(8, {204, 4125, 4128})
    \cup Fixed(10, {208}) \cup Fixed(12, {203, 230, 4126}) \cup Fixed(16, {207})
    \cup Fixed(20, {202}) \cup Fixed(28, {205}) \cup Image(36, 36, {4107})

\* Arrays and elements.
DrawArrays ==
    Counted(16, 12, {4116}) \cup Trusting(16, {4116}) \cup Trusting(12, {4117})

\* Tests, masks and clears.
StateTests ==
    Fixed(0, {108, 142}) \cup Fixed(4, {68, 69, 127, 133, 135, 164, 209})
    \cup Fixed(8, {85, 132, 160, 240}) \cup Fixed(12, {162, 163})
    \cup Fixed(16, {103, 130, 134})

\* Widths, culling and pixel transfer.
StatePixels ==
    Fixed(4, {79, 84, 95, 100, 104})
    \cup Fixed(8, {78, 80, 82, 101, 110, 111, 112, 113, 114}) \cup Fixed(36, {77})
    \cup Array(8, 4, 4, {81})

\* Fog and lights.
StateLights ==
    Shorter(8, 6, {94}) \cup Fixed(8, {90, 92}) \cup Fixed(12, {86, 88, 96})
    \cup Array(8, 4, 4, {83, 91, 93}) \cup Array(12, 8, 4, {87, 89})

\* Materials, names and buffers.
StateMaterials ==
    Fixed(0, {125, 140, 141}) \cup Fixed(4, {126, 129, 131, 136, 138, 139, 159})
    \cup Fixed(8, {137}) \cup Fixed(12, {98}) \cup Fixed(16, {128})
    \cup Fixed(128, {102}) \cup Array(12, 8, 4, {97, 99})

\* Pixel maps and offsets.
StatePixelMaps ==
    Cast(8, 2, {145}) \cup Cast(8, 4, {143, 144}) \cup Fixed(4, {146, 150})
    \cup Fixed(8, {161, 192}) \cup Fixed(12, {148}) \cup Fixed(16, {174})
    \cup Fixed(20, {147, 211}) \cup Fixed(36, {210}) \cup Fixed(40, {149})

\* Compressed images, blending and points.
StateBlend ==
    Fixed(0, (222..228) \cup (231..239)) \cup Fixed(4, {4097})
    \cup Shorter(8, 5, {229}) \cup Fixed(8, {4120}) \cup Fixed(12, {212})
    \cup Fixed(16, {4096}) \cup Array(8, 4, 4, {4121}) \cup Trusting(44, {213})
    \cup Trusting(48, {214}) \cup Trusting(52, {215})

\* State of the two faces.
StateSeparate ==
    Fixed(8, {4131, 4222}) \cup Fixed(16, {4129, 4130, 4134})

\* Texture parameters, environment and coordinates.
TextureGens ==
    Fixed(12, {105, 106, 115, 117, 121}) \cup Fixed(16, {119})
    \cup Array(12, 8, 4, {107, 109, 116, 118}) \cup Array(12, 8, 8, {120})

\* Texture units and colour tables.
TextureUnits ==
    Fixed(4, {197}) \cup Fixed(8, {198}) \cup Fixed(12, {123, 199})
    \cup Fixed(16, {200}) \cup Fixed(20, {201}) \cup Array(12, 8, 4, {122, 124})
    \cup Image(32, 40, {4098}) \cup Image(32, 44, {4099})

\* Texture images.
TextureImages ==
    Fixed(28, {4103}) \cup Image(36, 48, {4100}) \cup Image(40, 52, {4101})
    \cup Image(44, 52, {4102})

\* Copies, convolution and histograms.
TextureCopies ==
    Shorter(12, 9, {4113}) \cup Fixed(12, {4108, 4110})
    \cup Shorter(16, 13, {4112}) \cup Fixed(24, {4105})
    \cup Fixed(32, {4104, 4106}) \cup Array(12, 8, 4, {4109, 4111})

\* Volumes and texture objects.
TextureVolumes ==
    Counted(4, 4, {4119}) \cup Fixed(4, {4118}) \cup Fixed(8, {4117})
    \cup Trusting(44, {216}) \cup Trusting(48, {4116}) \cup Image(56, 56, {4114})
    \cup Image(60, 60, {4115})

\* Compressed images.
TextureCompressed ==
    Trusting(44, {219}) \cup Trusting(48, {217}) \cup Trusting(52, {218, 220})
    \cup Trusting(60, {221})

\* Loading and multiplying matrices.
MatrixLoads ==
    Fixed(0, {176, 183, 184}) \cup Fixed(4, {181}) \cup Fixed(12, {188})
    \cup Fixed(16, {186}) \cup Fixed(24, {187}) \cup Fixed(32, {185})
    \cup Fixed(48, {175, 182}) \cup Fixed(64, {177, 179})
    \cup Fixed(128, {178, 180})

\* Translation and viewport.
MatrixMoves ==
    Fixed(12, {190}) \cup Fixed(16, {191}) \cup Fixed(24, {189})

(***************************************************************************)
(* The requests that ask for values, by name.                              *)
(***************************************************************************)
SingleOps ==
    Fixed(0, {"Finish"}) \cup Fixed(4, {"RenderMode"})
    \cup Fixed(8, {"DeleteLists", "PixelStoref", "PixelStorei"})
    \cup Counted(4, 4, {"AreTexturesResident", "DeleteTextures"})
SingleGets ==
    Fixed(0, {"GetError"})
    \cup Fixed(4, {"GetIntegerv", "GetFloatv", "GetDoublev", "GetBooleanv", "GetString"})
SingleTests == Fixed(4, {"IsEnabled", "IsTexture", "GenTextures"})
SingleTextures ==
    Fixed(8, {"GetTexParameteriv", "GetTexParameterfv"})
    \cup Fixed(12, {"GetTexLevelParameteriv", "GetTexLevelParameterfv"})
    \cup Fixed(16, {"GetTexImage"})
SingleLights == Fixed(8, {"GetLightfv", "GetLightiv", "GetMaterialfv", "GetMaterialiv"})
SingleTexEnvs ==
    Fixed(8, {"GetTexEnvfv", "GetTexEnviv", "GetTexGendv", "GetTexGenfv", "GetTexGeniv"})
SingleMaps ==
    Fixed(0, {"GetPolygonStipple"})
    \cup Fixed(4, {"GetPixelMapfv", "GetClipPlane", "GenLists", "IsList"})

SingleDecoders ==
    SingleOps \cup SingleGets \cup SingleTests \cup SingleTextures \cup SingleLights
    \cup SingleTexEnvs \cup SingleMaps

(***************************************************************************)
(* What a decoder reads of a command of len bytes whose own count is n.    *)
(***************************************************************************)
\* The end of n announced elements.  For a count below zero the sum wraps: what
\* is below zero is 2^64 more and longer than any command.
AnnouncedEnd(d, n) == d.at + n * d.unit

ElementsIn(d, len, n) ==
    CASE d.take = "fits"    -> (len - d.at) \div d.unit
      [] d.take = "given"   -> IF n > 0 THEN n ELSE 0
      [] d.take = "image"   -> IF n > 0 /\ len > d.at THEN n ELSE 0
      [] d.take = "checked" -> IF n > 0 /\ AnnouncedEnd(d, n) <= len THEN n ELSE 0
      [] d.take = "cast"    -> IF n > 0 /\ AnnouncedEnd(d, n) <= len THEN n ELSE 0

\* A cast count below zero whose sum wraps to within the command passes the
\* comparison, and a vector of 2^64 + n elements cannot be had.
Panics(d, len, n) ==
    len >= d.need /\ d.take = "cast" /\ n < 0 /\ AnnouncedEnd(d, n) \in 0..len

ReadEnd(d, len, n) ==
    IF len < d.need THEN 0
    ELSE IF d.unit = 0 \/ ElementsIn(d, len, n) = 0 THEN d.end
    ELSE Max({d.end, d.at + ElementsIn(d, len, n) * d.unit})

\* The families are asked in turn; the first that knows the opcode takes the
\* command.
Families == <<
    DrawLists \cup DrawNormals \cup DrawRaster \cup DrawVertices \cup DrawEvaluators
        \cup DrawMaps \cup DrawMulti \cup DrawArrays,
    StateTests \cup StatePixels \cup StateLights \cup StateMaterials \cup StatePixelMaps
        \cup StateBlend \cup StateSeparate,
    TextureGens \cup TextureUnits \cup TextureImages \cup TextureCopies
        \cup TextureVolumes \cup TextureCompressed,
    MatrixLoads \cup MatrixMoves >>
Knows(f, op) == \E d \in Families[f] : d.op = op
FamilyOf(op) == Min({f \in 1..4 : Knows(f, op)})

\* A slip: a command is taken when its header fits, whatever its length says.
WalkUnchecked(len, size) ==
    LET walk[off \in 0..(2 * size)] ==
            IF off + 4 > size \/ len[off] < 4 THEN {} ELSE {off} \cup walk[off + len[off]]
    IN  walk[0]

\* The offsets of the commands executed of a payload of size bytes, where
\* len[o] is the length a command at offset o gives itself.
Walk(len, size) ==
    LET walk[off \in 0..(2 * size)] ==
            IF off + 4 > size \/ len[off] < 4 \/ off + len[off] > size
            THEN {} ELSE {off} \cup walk[off + len[off]]
    IN  walk[0]

(***************************************************************************)
(* What is checked of them.                                                *)
(***************************************************************************)
WireSize == 12
WireLens == [0..(WireSize - 4) -> {0, 4, 5, 8}]

\* The commands executed lie one behind the other from the start of the payload,
\* each entirely inside it: a length that is too small or too large ends the walk
\* of handle_render and nothing behind it is taken for a command.
WalkContiguous ==
    \A size \in 4..WireSize : \A len \in WireLens :
        LET at == Walk(len, size)
            bytes == UNION {o..(o + len[o] - 1) : o \in at}
        IN  /\ bytes = 0..(Cardinality(bytes) - 1)
            /\ Cardinality(bytes) <= size
            /\ \A o, p \in at : o < p => o + len[o] <= p

\* Nobody compares the announced size of lists, elements, vertices and images
\* with the bytes that came.
Unchecked(d, len, n) == d.take \in {"given", "image"} /\ n > len - d.at

\* What a command of len bytes that announces n elements may do to the task.
StaysInside(d, len, n) ==
    /\ ReadEnd(d, len, n) <= len \/ Unchecked(d, len, n)
    /\ Panics(d, len, n) => d.op \in {143, 144, 145} /\ n \in -4..-1

\* Whatever length a command has and whatever i32 it announces, its decoder
\* reads no byte behind its end, nor does the GL on its behalf, and it does not
\* panic; either would end the client's task.  Two things are exempt because
\* the code does not check them: a size that is handed to the GL as it is and is
\* larger than what came, and the counts -4 to -1 of glPixelMap.
DecodersInside ==
    \A len \in 0..140 : \A n \in -5..5 :
        /\ \A f \in 1..4 : \A d \in Families[f] : StaysInside(d, len, n)
        /\ \A d \in SingleDecoders : StaysInside(d, len, n)

=============================================================================
