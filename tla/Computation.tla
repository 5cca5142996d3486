----------------------------- MODULE Computation -----------------------------
(***************************************************************************)
(* SEM/computation.c: the state "comp" of the computation on the host.     *)
(* The image is cut into chunks that are computed one after another; comp  *)
(* remembers the number of the current chunk (cid) and, separately, the    *)
(* pixel its upper left corner has in the image (cur_x, cur_y).            *)
(*                                                                         *)
(* The operators on a value c of comp say what each function of the file   *)
(* does; the specification lets the functions be called in any order.      *)
(* chunk_re and chunk_im move with cur_x and cur_y in every function, so   *)
(* the pixel stands for the complex number too.  An iteration count is     *)
(* represented by the pixel it was computed for.                           *)
(***************************************************************************)
EXTENDS Integers

CONSTANTS Divide,         \* DIVIDE_CONSTANT: chunks per row and per column
          Width, Height,  \* the initial grid_w and grid_h
          Step,           \* PIXEL_CHANGE
          MaxWidth        \* bound: the image is not made wider than this

ASSUME DivideAssumption == Divide \in Nat \ {0}
\* 640, 480 and 20 are multiples of 10, and wider images stay below the width
\* at which chunk_n_re, a byte, would overflow.
ASSUME SizeAssumption ==
    /\ Width \in Nat \ {0} /\ \E k \in 1 .. Width : Width = k * Divide
    /\ Height \in 1 .. Width /\ \E k \in 1 .. Height : Height = k * Divide
    /\ Step \in Nat \ {0} /\ \E k \in 1 .. Step : Step = k * Divide
    /\ MaxWidth \in Nat /\ Width <= MaxWidth /\ MaxWidth < 256 * Divide

VARIABLES comp,   \* the struct
          asked,  \* the requests sent to the board, whose data may come at any time
          last    \* the last element of comp.grid stored, and for which pixel

compVars == <<comp, asked, last>>

-----------------------------------------------------------------------------
\* computation_init: the size of a chunk, in bytes of type uint8_t, and the
\* number of chunks.
ChunkRe(c) == (c.w \div Divide) % 256
ChunkIm(c) == (c.h \div Divide) % 256
NbrChunks(c) == (c.w * c.h) \div (ChunkRe(c) * ChunkIm(c))

Pixel(c, x, y) == <<c.w, c.h, x, y>>

CompInit ==
    [w |-> Width, h |-> Height, cid |-> 0, cur_x |-> 0, cur_y |-> 0,
     abort |-> FALSE, computing |-> FALSE, done |-> FALSE]

Aborted(c) == [c EXCEPT !.abort = TRUE, !.computing = FALSE]
Enabled(c) == [c EXCEPT !.abort = FALSE]

\* set_compute: refused while computing; the only place where done is reset.
MaySet(c) == ~c.computing
AfterSet(c) == [c EXCEPT !.done = FALSE]

\* compute: the first chunk, the next one, or none left.
FirstChunk(c) == [c EXCEPT !.cid = 0, !.computing = TRUE, !.cur_x = 0, !.cur_y = 0]

\* Mutated form: the end of a row is seen one chunk late.
NextChunkLateWrap(c) ==
    LET x == c.cur_x + ChunkRe(c)
    IN  [c EXCEPT !.cid = @ + 1,
                  !.cur_x = IF x > c.w THEN 0 ELSE x,
                  !.cur_y = IF x > c.w THEN @ + ChunkIm(c) ELSE @]

NextChunk(c) ==
    LET x == c.cur_x + ChunkRe(c)
    IN  [c EXCEPT !.cid = @ + 1,
                  !.cur_x = IF x >= c.w THEN 0 ELSE x,
                  !.cur_y = IF x >= c.w THEN @ + ChunkIm(c) ELSE @]

NoChunkLeft(c) == [c EXCEPT !.cid = @ + 1, !.done = TRUE, !.computing = FALSE]

HasNext(c) == c.cid + 1 < NbrChunks(c)
Advanced(c) == IF ~c.computing THEN FirstChunk(c)
               ELSE IF HasNext(c) THEN NextChunk(c)
               ELSE NoChunkLeft(c)

\* What MSG_COMPUTE asks for: a chunk, its corner (as a complex number) and
\* its size.
Request(c) == [cid |-> c.cid, x |-> c.cur_x, y |-> c.cur_y,
               n_re |-> ChunkRe(c), n_im |-> ChunkIm(c), w |-> c.w, h |-> c.h]

\* update_data, for data d = [cid, i_re, i_im, iter].
Index(c, d) == c.cur_x + d.i_re + (c.cur_y + d.i_im) * c.w
\* Mutated form: the last pixel of any chunk ends the computation.
IsLastPixelOfChunk(c, d) == d.i_re + 1 = ChunkRe(c) /\ d.i_im + 1 = ChunkIm(c)

IsLastPixel(c, d) ==
    /\ c.cid + 1 >= NbrChunks(c)
    /\ d.i_re + 1 = ChunkRe(c)
    /\ d.i_im + 1 = ChunkIm(c)

\* Mutated form: the chunk id of the data is not compared.
TakesAny(c, d) == TRUE

Takes(c, d) == d.cid = c.cid
Updated(c, d) ==
    IF Takes(c, d) /\ IsLastPixel(c, d)
    THEN [c EXCEPT !.done = TRUE, !.computing = FALSE] ELSE c
Hits(c, d) == Takes(c, d) /\ Index(c, d) \in 0 .. c.w * c.h - 1

AtChunkZero(c) == [c EXCEPT !.cid = 0, !.cur_x = 0, !.cur_y = 0]

\* load_size, then change_image_size: the flags stay as they are.
Resized(c, change) == AtChunkZero([c EXCEPT !.w = @ + change, !.h = @ + change])

-----------------------------------------------------------------------------
(* The functions called in any order, with any data.                       *)

NoStore == [index |-> 0, pixel |-> <<>>]

Init == comp = CompInit /\ asked = {} /\ last = NoStore

SetCompute == MaySet(comp) /\ comp' = AfterSet(comp) /\ UNCHANGED <<asked, last>>
Compute ==
    /\ comp' = Advanced(Enabled(comp))
    /\ asked' = IF comp'.computing THEN asked \cup {Request(comp')} ELSE asked
    /\ UNCHANGED last
AbortComp == comp' = Aborted(comp) /\ UNCHANGED <<asked, last>>
EnableComp == comp' = Enabled(comp) /\ UNCHANGED <<asked, last>>
ResetChunkId == comp' = AtChunkZero(comp) /\ UNCHANGED <<asked, last>>

\* clear_buffer, and the new grid of a new size: nothing is stored any more.
ClearBuffer == last' = NoStore /\ UNCHANGED <<comp, asked>>
\* Of an image without height the program ends (HostImage).
ChangeImageSize(change) ==
    /\ comp.w + change <= MaxWidth /\ comp.h + change > 0
    /\ comp' = Resized(comp, change)
    /\ last' = NoStore
    /\ UNCHANGED asked

\* Data as the board makes them: pixel (i, j) of a chunk that was asked for.
DataOf(r, i, j) ==
    [cid |-> r.cid, i_re |-> i, i_im |-> j, iter |-> <<r.w, r.h, r.x + i, r.y + j>>]
UpdateData(d) ==
    /\ ~comp.abort
    /\ comp' = Updated(comp, d)
    /\ last' = IF Hits(comp, d) THEN [index |-> Index(comp, d), pixel |-> d.iter] ELSE last
    /\ UNCHANGED asked

Next ==
    \/ SetCompute \/ Compute \/ AbortComp \/ EnableComp \/ ResetChunkId \/ ClearBuffer
    \/ \E change \in {-Step, Step} : ChangeImageSize(change)
    \/ \E r \in asked : \E i \in 0 .. r.n_re - 1, j \in 0 .. r.n_im - 1 : UpdateData(DataOf(r, i, j))

Spec == Init /\ [][Next]_compVars

-----------------------------------------------------------------------------
CompType ==
    /\ comp \in [w : Nat, h : Nat, cid : Nat, cur_x : Nat, cur_y : Nat,
                 abort : BOOLEAN, computing : BOOLEAN, done : BOOLEAN]
    /\ comp.w \in 1 .. MaxWidth
    /\ comp.cid <= NbrChunks(comp)

\* The number of the chunk and the corner of the chunk are kept in different
\* variables, moved by different functions; they never drift apart: chunk cid
\* is the one in column cid % Divide and row cid \div Divide of the image.
CursorMatchesCid ==
    comp.cid < NbrChunks(comp) =>
        /\ comp.cur_x = (comp.cid % Divide) * ChunkRe(comp)
        /\ comp.cur_y = (comp.cid \div Divide) * ChunkIm(comp)

\* Whatever chunk they were asked for and however late they come, after aborts,
\* resets and changes of the size there and back: data of an image of the
\* present size are stored at the index of their own pixel.  (Data of another
\* size are stored too, at wrong places: SemSystem.)
StoredInPlace ==
    last # NoStore /\ last.pixel[1] = comp.w /\ last.pixel[2] = comp.h =>
        last.pixel = Pixel(comp, last.index % comp.w, last.index \div comp.w)
=============================================================================
