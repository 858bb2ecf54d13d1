----------------------------- MODULE MCEmailIngest -----------------------------
(***************************************************************************)
(* Instance of EmailIngest for TLC: two programs side by side, the watcher *)
(* and the import, or the import and the news feed's job.                  *)
(***************************************************************************)
EXTENDS EmailIngest

MCCrews == {{"watch", "import"}, {"import", "feed"}}
===============================================================================
