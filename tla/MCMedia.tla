------------------------------ MODULE MCMedia -------------------------------
(* A small instance of Media: copies of one medium, Telegram's limits in     *)
(* megabytes, and sizes on both sides of each limit.                         *)
EXTENDS Media, TLC

\* Media are numbered; the first two have the same content.
CopyHash == [m \in Media |-> IF m = 1 THEN 2 ELSE m]

MCSizes == {0, 1, 2, 5, 6, 10, 11, 20, 21, 49, 50}
MCRemoteMax == "photo" :> 5 @@ "video" :> 20
MCAttachMax == "photo" :> 10 @@ "video" :> 50
MCConverters == <<"ffmpeg", "aconvert">>
=============================================================================
