------------------------------ MODULE MCRecords ------------------------------
(* A plan of a required name, a whole number, an address, a mail and a time. *)
EXTENDS RecordProperties

Types == [name |-> "text", price |-> "integer", link |-> "url", mail |-> "email", day |-> "date",
          time |-> "datetime"]

Source(name, price, text) ==
    [named |-> [f \in Fields |-> CASE f = "name" -> name [] f = "price" -> price [] OTHER -> None],
     text |-> text, url |-> None]

Nothing == Source(None, None, None)

\* A name, and for one more field a token.
Says(f, token) == [Source("word", None, None) EXCEPT !.named[f] = token]

\* Complete, without a number, zero as a text and as JSON, not whole, without a
\* name, too long for a snippet, and a name taken from the plain text.
Entities ==
    {Source("word", "7", None), Source("word", None, None), Source("=word", "0", None),
     Source("word", "json 0", None), Source("word", "7.5", None), Source(None, "7", None),
     Source("long", "word", None)}

\* Addresses without a host, without a scheme and of mail, mails and days that are
\* and are not in a form validation takes, and JSON where a text is expected.
TypedEntities ==
    {Says("link", token) : token \in {"http://", "word", "mailto:word", "json 0"}}
        \cup {Says("mail", token) : token \in {"To: Word@host.net", "word"}}
        \cup {Says(f, token) : f \in {"day", "time"}, token \in {"2024-05-01", "2024-05-01T10:00Z"}}

Shows(entities, rows, blocks, detail) ==
    [entities |-> entities, rows |-> rows, blocks |-> blocks, detail |-> detail]

\* Blocks and pages offer their text and their address.
Text(token) == [Nothing EXCEPT !.text = token, !.url = "https://page/"]

\* Pages with structured data (of one or two entities), with a table, with one
\* block or two, and with nothing but OpenGraph data, a text, or an empty text.
PageKinds ==
    {Shows(<<a>>, <<Nothing>>, <<>>, Text("word")) : a \in Entities \cup TypedEntities}
        \cup {Shows(<<a, b>>, <<>>, <<>>, Text("word")) : a, b \in Entities}
        \cup {Shows(<<Nothing>>, <<a, b>>, <<>>, Text("")) :
                  a \in Entities, b \in {Nothing, Source("word", "7", None)}}
        \cup {Shows(<<>>, <<>>, blocks, Text("long")) :
                  blocks \in {<<Text("=word")>>, <<Text("=word"), Text("word")>>}}
        \cup {Shows(<<>>, <<>>, <<>>, d) :
                  d \in {[Text("long") EXCEPT !.named["name"] = "word", !.named["price"] = "7"],
                         Text("")}}

=============================================================================
