------------------------------- MODULE MCReplies -------------------------------
(* Three users: the one that mounted, and two more for callers and -U.          *)
EXTENDS Replies
================================================================================
