----------------------------- MODULE MCVendors ------------------------------
(* A small instance of Vendors: two chats, one post that does not match, two *)
(* readers who change the share in both directions, and three subreddits.    *)
(* The vendors have no state in common, so one of them, the mover, moves in  *)
(* a behaviour while the others rest.                                        *)
EXTENDS Vendors, TLC

VARIABLE mover

MCFeeds == {"chat", "channel"}
MCOptionSets == {{"t"}, {"t", "!m"}}
MCPresses == {<<"a", 1, "like">>, <<"a", 1, "dislike">>, <<"b", 1, "dislike">>, <<"b", 2, "click">>}
MCSubreddits == {"cats", "dogs", "pets"}
MCLiked == {"cats", "dogs"}
MCRelated == "cats" :> ("pets" :> 2 @@ "dogs" :> 1)
             @@ "dogs" :> ("pets" :> 1 @@ "cats" :> 2)

MCInit ==
  /\ VendorsInit
  /\ mover \in {"dvach", "subreddit", "pacing", "suggestions"}
  /\ mover # "dvach" => kind = "catalog"

MCNext ==
  /\ \/ mover = "dvach" /\ DvachMoves
     \/ mover = "subreddit" /\ SubredditMoves
     \/ mover = "pacing" /\ PacingMoves
     \/ mover = "suggestions" /\ SuggestionsMove
  /\ UNCHANGED mover

MCSpec == MCInit /\ [][MCNext]_<<mover, vendorsVars>>
=============================================================================
