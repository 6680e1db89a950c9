-------------------------- MODULE MCSessionDrain --------------------------
(* Rows for SessionDrain: one maps to nothing, one fits a window, one fits none. *)
EXTENDS SessionDrain

RowIds == 1..3
RowBytes == <<0, 2, 5>>
RowPayload == <<1, 3, 2>>
=============================================================================
