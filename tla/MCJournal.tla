------------------------------ MODULE MCJournal ------------------------------
(* Two workers and a stray writer, one reader that is given only half of    *)
(* what is published. Before that, drafts at and beyond every bound, of     *)
(* plain text, of text JSON writes six times as long, and of line           *)
(* separators, which only a prompt escapes.                                 *)
EXTENDS StoredJournal

CONSTANTS first, second, inbox, stranger

MCPublishers == {first, second}
MCReaders == {inbox}
MCWants == [r \in MCReaders |-> {"mine"}]
MCTopics == {"mine", "other"}

Text(bytes, json, line) == [blank |-> FALSE, bytes |-> bytes, json |-> json, line |-> line]
Plain(n) == Text(n, n, n)
Control(n) == Text(n, 6 * n, 6 * n)
Separators(n) == Text(n, n, 3 * n)
Blanks == [blank |-> TRUE, bytes |-> 1, json |-> 1, line |-> 1]

Times(n, text) == [i \in 1 .. n |-> text]

Messages == {Plain(1), Plain(16), Plain(17), Control(5), Control(16), Blanks}
Items == {<<>>, <<Plain(4)>>, <<Plain(5)>>, <<Control(3)>>, <<Blanks>>,
          Times(16, Plain(1)), Times(17, Plain(1)), Times(16, Plain(4))}
Recipients == {{}, {second}, {second, stranger}}

Events ==
  [kind : {"event"}, author : {first, stranger}, to : Recipients, message : Messages, items : Items]
Mail ==
  [kind : {"message"}, author : {first, stranger}, to : {{second}, {stranger}}, message : Messages,
   items : {<<>>}]

Texts == {Times(1, Plain(1)), Times(1, Blanks), Times(1, Plain(17)), Times(5, Plain(16)),
          Times(6, Plain(16)), Times(5, Separators(16)), Times(1, Control(15)),
          Times(1, Control(16)), Times(5, Plain(1)) \o Times(6, Control(2)), Times(129, Plain(1))}
Reports == [texts : Texts, blockers : BOOLEAN]
Attachments == {Absent, Plain(128), Plain(129), Control(128), Blanks}
Notes == {Absent, Plain(16), Plain(17), Control(2), Control(3), Blanks}

Results ==
  [kind : {"result"}, report : Reports \cup {Absent}, artifact : Attachments,
   usage : {Absent, "in_range", "out_of_range"}, diagnostics : Notes]

MCDrafts == Events \cup Mail \cup Results
MCFollowed ==
  [kind |-> "event", author |-> first, to |-> {second}, message |-> Plain(16), items |-> <<Plain(4)>>]
=============================================================================
