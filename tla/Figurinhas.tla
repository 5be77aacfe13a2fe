----------------------------- MODULE Figurinhas -----------------------------
(***************************************************************************)
(* The arithmetic of animated stickers in the bridge: which frames of the  *)
(* animation go into the contact sheet, how the sheet is laid out, and     *)
(* which canvas is small enough to be decoded                              *)
(* (src/whatsmeow-bridge/main.go, media_exec.go).                          *)
(***************************************************************************)
EXTENDS Naturals, Sequences, SequencesExt

CONSTANTS
  maxAnimatedStickerFrames, \* frames of a contact sheet (16)
  maxStickerCanvasPixels,   \* pixels of a canvas (1024 * 1024)
  MaxQuadros,               \* bound: frame counts looked at
  MaxLado                   \* bound: sides of a canvas looked at

ASSUME FigurinhasAssumption ==
  /\ maxAnimatedStickerFrames \in Nat \ {0, 1}
  /\ maxStickerCanvasPixels \in Nat \ {0}
  /\ MaxQuadros \in Nat /\ MaxLado \in Nat

(* A slip: the last sample falls one short of the last frame. *)
indice_curto(i, n, max) == 1 + ((i * (n - 2) + (max - 1) \div 2) \div (max - 1))
(* The i-th sample, i from 0: spread over 1..n and rounded to nearest. *)
indice(i, n, max) == 1 + ((i * (n - 1) + (max - 1) \div 2) \div (max - 1))

(* What the loop has collected after its first k rounds: none twice in a  *)
(* row.                                                                    *)
colhidas(n, max) ==
  LET indices[k \in 0 .. max] ==
        IF k = 0 THEN <<>>
        ELSE LET antes == indices[k - 1]
                 index == indice(k - 1, n, max) IN
             IF antes # <<>> /\ Last(antes) = index THEN antes ELSE Append(antes, index)
  IN indices

(* sampleFrameIndices: every frame of a short animation, else max samples. *)
sampleFrameIndices(n, max) ==
  IF n <= max THEN [i \in 1 .. n |-> i] ELSE colhidas(n, max)[max]

(* contactSheetGrid: at most four columns. *)
contactSheetGrid(n) ==
  LET cols == IF n < 4 THEN n ELSE 4 IN
  IF n <= 1 THEN <<1, 1>> ELSE <<cols, (n + cols - 1) \div cols>>

(* A slip: the quotient is compared strictly. *)
stickerCanvasAllowed_estrito(w, h) == w > 0 /\ h > 0 /\ w < maxStickerCanvasPixels \div h
(* stickerCanvasAllowed: a product compared without computing it. *)
stickerCanvasAllowed(w, h) == w > 0 /\ h > 0 /\ w <= maxStickerCanvasPixels \div h

---------------------------------------------------------------------------
(* The contact sheet shows the animation from its first frame to its last, *)
(* in order, no frame twice and as many as fit, on a grid with a tile for  *)
(* each and no empty row.                                                  *)
GradeCompleta ==
  \A n \in 2 .. MaxQuadros :
    LET quadros == sampleFrameIndices(n, maxAnimatedStickerFrames)
        grade == contactSheetGrid(Len(quadros)) IN
    /\ Len(quadros) = IF n <= maxAnimatedStickerFrames THEN n ELSE maxAnimatedStickerFrames
    /\ quadros[1] = 1 /\ quadros[Len(quadros)] = n
    /\ \A i \in 1 .. Len(quadros) - 1 : quadros[i] < quadros[i + 1]
    /\ grade[1] * (grade[2] - 1) < Len(quadros) /\ Len(quadros) <= grade[1] * grade[2]

(* A canvas is decoded exactly when its area is within the limit. *)
TelaPeloTamanho ==
  \A w, h \in 1 .. MaxLado :
    stickerCanvasAllowed(w, h) <=> w * h <= maxStickerCanvasPixels
============================================================================
