------------------------- MODULE MC_MuseConexiones -------------------------
(***************************************************************************)
(* An instance of MuseConexiones for TLC, scaled down so that the indices  *)
(* of the slots reach every kind of descriptor: 0 is a file, 1 the socket  *)
(* that listens, 2 and 3 the first clients (or a file that muse_map opened *)
(* where a client was).                                                    *)
(***************************************************************************)
EXTENDS MuseConexiones, TLC

=============================================================================
