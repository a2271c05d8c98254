------------------------------ MODULE MCInputSeq ------------------------------
(***************************************************************************)
(* Small inputs to run InputSeq on: texts of one to three characters, with *)
(* and without a newline, one file that is longer than a block, one tree.  *)
(***************************************************************************)
EXTENDS InputSeq

Letters == {"a", "b", "nl"}
OneTree == {"T"}
OneFile == {"F"}
ShortFile == [f \in OneFile |-> <<"b", "a">>]
LongFile == [f \in OneFile |-> <<"a", "nl", "b", "b", "a">>]
Lines == {<<"a", "nl">>, <<"nl">>, <<"a", "b", "b">>}

\* Reads, takes back and reads again, across blocks and lines, texts and a file.
Redo == [ops |-> {"take", "text", "stream"}, send |-> Lines, push |-> {},
         files |-> LongFile, lens |-> {1}, maxOps |-> 5, maxBufs |-> 3]

\* Has actions that pull and push, texts and trees, in the middle of the text.
Act == [ops |-> {"pull", "tree", "text", "push", "pushtree", "sendtree"},
        send |-> {<<"a", "b">>}, push |-> {<<"b">>}, files |-> ShortFile,
        lens |-> {1, 2}, maxOps |-> 4, maxBufs |-> 4]

\* Pushes a file in front of the text.
Include == [Act EXCEPT !.ops = {"pull", "text", "tree", "push", "pushtree", "pushstream"}]

\* Sends a tree and takes the statement back.
Send == [Redo EXCEPT !.ops = {"take", "tree", "text", "sendtree"},
                     !.send = {<<"a", "b">>, <<"a", "b", "b">>}, !.maxOps = 3, !.maxBufs = 4]

Three == {Redo, Act, Include}
OneSend == {Send}
=============================================================================
