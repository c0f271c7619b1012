--------------------------- MODULE MCHomeFilms ---------------------------
(* HomeFilms for TLC; the configuration gives its bounds.                  *)
EXTENDS HomeFilms
==========================================================================
