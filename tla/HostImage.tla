------------------------------ MODULE HostImage ------------------------------
(***************************************************************************)
(* The size of the image and the constant c, which the user changes with   *)
(* t, u, +, - and d (SEM/prgsem-main.c), and what has to follow: the grid  *)
(* and the chunks of SEM/computation.c, the picture of SEM/gui.c and the   *)
(* window of SEM/xwin_sdl.c.  Sizes are the numbers of the code, pixels    *)
(* are left out.                                                           *)
(***************************************************************************)
EXTENDS Integers

CONSTANTS InitialWidth, InitialHeight,  \* grid_w and grid_h at the start
          PixelChange,                  \* PIXEL_CHANGE
          DivideConstant,               \* DIVIDE_CONSTANT
          MaxChange, MaxC,              \* bounds: of size_change and of the changes of c
          MaxImageWidth                 \* bound: of the width applied

ASSUME ImageAssumption ==
    /\ DivideConstant \in Nat \ {0}
    /\ InitialHeight \in Nat \ {0} /\ InitialWidth \in Nat
    /\ PixelChange \in Nat \ {0}
    /\ \A n \in {InitialWidth, InitialHeight, PixelChange} : n % DivideConstant = 0

VARIABLES im,        \* the sizes: see ImageInit
          resizing, changingC,    \* data.change_img_size, data.change_c_bool
          sizeChange, cChange,    \* data.size_change; data.c_change in units of C_CHANGE
          cRe                     \* comp.c_re and c_im, in units of C_CHANGE from where they start

imageVars == <<im, resizing, changingC, sizeChange, cChange, cRe>>

NoWindow == <<>>
Byte(n) == n % 256
\* C divides toward zero.
Quotient(n, d) == IF n < 0 THEN -((-n) \div d) ELSE n \div d

-----------------------------------------------------------------------------
\* computation_init: malloc(0) may give NULL, and of a negative size is
\* refused; a chunk without pixels is a division by zero.
ComputationInit(s) ==
    LET re == Byte(Quotient(s.w, DivideConstant))
        n_im == Byte(Quotient(s.h, DivideConstant))
    IN  IF s.w * s.h <= 0 \/ re * n_im = 0 THEN [s EXCEPT !.ended = TRUE]
        ELSE [s EXCEPT !.grid = s.w * s.h, !.chunk_n_re = re, !.chunk_n_im = n_im,
                       !.nbr_chunks = (s.w * s.h) \div (re * n_im)]

ComputationCleanup(s) == [s EXCEPT !.grid = 0]

\* gui_init with xwin_init, which asserts that there is no window.
GuiInit(s) ==
    IF s.ended \/ s.win # NoWindow THEN [s EXCEPT !.ended = TRUE]
    ELSE [s EXCEPT !.gui_w = s.w, !.gui_h = s.h, !.img = 3 * s.w * s.h, !.win = <<s.w, s.h>>]

\* gui_cleanup with xwin_close, which asserts that there is one.
GuiCleanup(s) == IF s.win = NoWindow THEN [s EXCEPT !.ended = TRUE] ELSE [s EXCEPT !.img = 0, !.win = NoWindow]

LoadSize(s, n) == [s EXCEPT !.w = @ + n, !.h = @ + n]

\* Mutated form: the picture and the window stay.
ChangeImageSizeGridOnly(s) == ComputationInit(ComputationCleanup(s))

ChangedImageSize(s) == GuiInit(ComputationInit(ComputationCleanup(GuiCleanup(s))))

ImageInit ==
    /\ im = GuiInit(ComputationInit(
               [w |-> InitialWidth, h |-> InitialHeight, chunk_n_re |-> 0, chunk_n_im |-> 0, nbr_chunks |-> 0,
                grid |-> 0, gui_w |-> 0, gui_h |-> 0, img |-> 0, win |-> NoWindow, ended |-> FALSE]))
    /\ resizing = FALSE /\ changingC = FALSE /\ sizeChange = 0 /\ cChange = 0 /\ cRe = 0

-----------------------------------------------------------------------------
(* main, one event each *)

ChooseSize == resizing' = TRUE /\ UNCHANGED <<im, changingC, sizeChange, cChange, cRe>>
ChooseC == changingC' = TRUE /\ UNCHANGED <<im, resizing, sizeChange, cChange, cRe>>

\* Mutated form: 12 pixels.
ChangedByTwelve(n, sign) == n + sign * 12

Changed(n, sign) == n + sign * PixelChange

\* change_values: with both or none chosen, + and - do nothing.
ChangeValues(sign) ==
    /\ sizeChange' = IF resizing /\ ~changingC THEN Changed(sizeChange, sign) ELSE sizeChange
    /\ cChange' = IF changingC /\ ~resizing THEN cChange + sign ELSE cChange
    /\ sizeChange' \in -MaxChange .. MaxChange
    /\ cChange' \in -MaxC .. MaxC
    /\ UNCHANGED <<im, resizing, changingC, cRe>>

\* Mutated form: what was applied is not set back to zero.
ChangeDoneKeeps ==
    /\ im.w + sizeChange \in 1 .. MaxImageWidth
    /\ im' = IF resizing THEN ChangedImageSize(LoadSize(im, sizeChange)) ELSE im
    /\ cRe' = IF changingC THEN cRe + cChange ELSE cRe
    /\ cRe' \in -MaxC .. MaxC
    /\ resizing' = FALSE /\ changingC' = FALSE
    /\ UNCHANGED <<sizeChange, cChange>>

\* EV_CHANGE_DONE, within the bounds (an image without width has no height
\* either: the program has ended before).
ChangeDone ==
    /\ im.w + sizeChange \in 1 .. MaxImageWidth
    /\ im' = IF resizing THEN ChangedImageSize(LoadSize(im, sizeChange)) ELSE im
    /\ cRe' = IF changingC THEN cRe + cChange ELSE cRe
    /\ cRe' \in -MaxC .. MaxC
    /\ resizing' = FALSE /\ changingC' = FALSE
    /\ sizeChange' = IF resizing THEN 0 ELSE sizeChange
    /\ cChange' = IF changingC THEN 0 ELSE cChange

\* gui_refresh, for EV_REFRESH and MSG_DONE: update_image asserts that the
\* picture has the size of the grid.
Refresh ==
    /\ im.img # 0
    /\ im' = [im EXCEPT !.ended = @ \/ <<im.gui_w, im.gui_h>> # <<im.w, im.h>>]
    /\ UNCHANGED <<resizing, changingC, sizeChange, cChange, cRe>>

ImageNext ==
    /\ ~im.ended
    /\ \/ ChooseSize \/ ChooseC \/ ChangeDone \/ Refresh
       \/ \E sign \in {-1, 1} : ChangeValues(sign)

ImageSpec == ImageInit /\ [][ImageNext]_imageVars

-----------------------------------------------------------------------------
\* Four files keep a size each: they agree whenever an event is handled, so
\* that no assertion fails, and neither data nor a refresh goes past an array.
SizesAgree ==
    ~im.ended => /\ <<im.gui_w, im.gui_h>> = <<im.w, im.h>> /\ im.win = <<im.w, im.h>>
                 /\ im.grid = im.w * im.h /\ im.img = 3 * im.grid

\* A change that was counted is one the user is still making: nothing is
\* carried over from an earlier one.
NothingCarriedOver == (sizeChange # 0 => resizing) /\ (cChange # 0 => changingC)

\* Up to the width where the byte chunk_n_re wraps, the chunks cover the image
\* exactly, there are DIVIDE_CONSTANT^2 of them, and the program ends only for
\* an image without height; at that width it ends, and above it the chunks are
\* far too many.
ChunksTile ==
    IF im.w < 256 * DivideConstant
    THEN /\ im.ended <=> im.h <= 0
         /\ ~im.ended => /\ im.chunk_n_re * DivideConstant = im.w
                         /\ im.chunk_n_im * DivideConstant = im.h
                         /\ im.nbr_chunks = DivideConstant * DivideConstant
    ELSE im.w < 256 * (DivideConstant + 1) => im.ended \/ im.nbr_chunks > DivideConstant * DivideConstant
=============================================================================
