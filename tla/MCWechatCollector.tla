-------------------------- MODULE MCWechatCollector --------------------------
(* Instances of WechatCollector for TLC: one group is talked in, another may *)
(* get its lines.  Of the texts one states the title, one the date, and one   *)
(* moves the date; the first has a change's words, although it alters nothing. *)
EXTENDS WechatCollector, TLC

CONSTANTS Main, Other, Title, Date, TitleLine, DateLine, MoveDate
InOrder == <<Main, Other>>
LinesSaid == Main :> 4 @@ Other :> 0
Said == {TitleLine, DateLine, MoveDate}
Stating == TitleLine :> {Title} @@ DateLine :> {Date} @@ MoveDate :> {Date}
Altering == TitleLine :> {} @@ DateLine :> {} @@ MoveDate :> {Date}
=============================================================================
