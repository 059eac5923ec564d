------------------------------ MODULE MCCopyPool ------------------------------
(* Instances of CopyPool for TLC: three copies of two files, two of them to   *)
(* OneDrive, whose two accounts have room for both in one order only, one to Telegram.   *)
EXTENDS CopyPool, TLC

MCJobs     == {"f1-ms", "f2-ms", "f1-tg"}
MCFileOf   == "f1-ms" :> "f1" @@ "f2-ms" :> "f2" @@ "f1-tg" :> "f1"
MCGoesTo   == "f1-ms" :> "ms" @@ "f2-ms" :> "ms" @@ "f1-tg" :> "tg"
MCSize     == "f1" :> 2 @@ "f2" :> 2
MCReplicas == "f1" :> 1 @@ "f2" :> 1
MCOrder    == "ms" :> <<"m1", "m2">> @@ "tg" :> <<"t1">>
MCTotal    == "m1" :> 4 @@ "m2" :> 3 @@ "t1" :> 0
MCInUse    == "m1" :> 1 @@ "m2" :> 1 @@ "t1" :> 0
=============================================================================
