----------------------------- MODULE MCDialogue -----------------------------
(* Instances of the dialogue for TLC.                                      *)
EXTENDS Dialogue

MCLower == [t \in {"octal", "blksize", "tsize", "timeout", "rollover"} |-> t] @@
           ("Octal" :> "octal") @@ ("BLKSIZE" :> "blksize")
MCBase  == ("file" :> "file") @@ ("dir/file" :> "file") @@ ("dir/" :> "") @@ ("" :> "")
MCParsed ==
  [t \in {ToString(n) : n \in {0, 1, 7, 8, 20, 512, 1024}} |->
     CHOOSE n \in {0, 1, 7, 8, 20, 512, 1024} : ToString(n) = t]

Asks(by, message, sizes) == {[by |-> by, message |-> message, size |-> n] : n \in sizes}
Read(path, o)  == Request("RRQ", path, "octal", o)
Write(path, o) == Request("WRQ", path, "octal", o)

(* What tftpcpc asks: a download always for the size, an upload nothing.   *)
Shipped ==
  Asks("tftpcpc", Read("file", "tsize" :> "0"), {-1, 0, 20, 512}) \cup
  Asks("tftpcpc", Write("dir/file", NoOptions), {0, 20, 512}) \cup
  Asks("tftpcpc", Write("dir/", NoOptions), {20})

(* What others may: a small block, a large one, one the daemon refuses, no *)
(* options, some it does not know, a value that is no number, no request.  *)
Foreign ==
  Asks("other", Read("file", NoOptions), {-1, 0, 512}) \cup
  Asks("other", Read("file", ("BLKSIZE" :> "8") @@ ("tsize" :> "0")), {0, 8, 20}) \cup
  Asks("other", Read("file", "blksize" :> "1024"), {-1, 20}) \cup
  Asks("other", Read("file", "blksize" :> "7"), {20}) \cup
  Asks("other", Write("file", ("blksize" :> "1024") @@ ("rollover" :> "1")), {20, 1024}) \cup
  Asks("other", Request("WRQ", "file", "Octal", ("BLKSIZE" :> "8") @@ ("tsize" :> "20")), {20}) \cup
  Asks("other", Write("file", "tsize" :> "0"), {0}) \cup
  Asks("other", Write("file", "timeout" :> "five"), {20}) \cup
  Asks("other", Ack(1), {0})

AllRequests == Shipped \cup Foreign
=============================================================================
