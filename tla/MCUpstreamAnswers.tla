------------------------- MODULE MCUpstreamAnswers -------------------------
(* The statuses for TLC. *)
EXTENDS UpstreamAnswers

MCStatuses == {200, 302, 400, 401, 403, 404, 409, 422, 429, 500, 503}
=============================================================================
