----------------------------- MODULE MCConversation -----------------------------
(* The smallest window the code plans with, one that is larger, and none: turns  *)
(* too short to cut, just long enough, and longer than the window can hold.      *)
EXTENDS Conversation

MCResults == {<<0, 0>>, <<700, 0>>, <<2500, 900>>}
=================================================================================
