------------------------------- MODULE MCTiny -------------------------------
(***************************************************************************)
(* TLC instance of Tiny: one client makes any of the requests below, the   *)
(* other one of a few that meet it in the same file or in the CGI path.    *)
(***************************************************************************)
EXTENDS Tiny

CONSTANTS c1, c2

R(m, u, n, t, b) ==
  [method |-> m, uri |-> u, length |-> n, type |-> t, body |-> b]

home == <<"home.html">>
adder == <<"cgi-bin", "adder">>
secret == <<"secret">>

MCFiles ==
  home :> [mode |-> {"REG", "RUSR"}, content |-> <<"7", "8">>]
    @@ adder :> [mode |-> {"REG", "RUSR", "XUSR"}, content |-> <<"9">>]
    @@ secret :> [mode |-> {"REG"}, content |-> <<>>]

Gets ==
  {R("GET", u, -1, "plain", <<>>) :
     u \in {<<"">>, secret, adder, <<"cgi-bin", "x">>, <<"uploads", "a">>}}

\* One byte more than announced, two reads of MAXBUF, an empty file, no length.
Puts ==
  {R("PUT", <<"a">>, 1, "plain", <<"1", "2">>), R("PUT", <<"x", "a">>, 3, "plain", <<"1", "2", "3">>),
   R("PUT", <<"..">>, 0, "plain", <<>>), R("PUT", <<"a">>, -1, "plain", <<>>)}

\* A form whose only part is the file; the closing line may be cut off.
Form == <<"sep", "file", "4", "sep">>
Posts ==
  {R("POST", <<"a">>, 2, "plain", <<"1", "2">>), R("POST", <<"a">>, 4, "multipart", Form),
   R("POST", <<"a">>, 6, "plain", <<>>), R("POST", <<"a">>, -1, "plain", <<>>)}

MCRequests ==
  [c \in Clients |->
     IF c = c1 THEN Gets \cup Puts \cup Posts \cup {R("HEAD", home, -1, "plain", <<>>)}
     ELSE {R("PUT", <<"a">>, 1, "plain", <<"5">>), R("GET", adder, -1, "plain", <<>>)}]

\* A form with a text field before the file.
FieldFirst == <<"sep", "field", "3", "sep", "file", "4", "sep">>
MCForms == [c \in Clients |-> {R("POST", <<"a">>, 7, "multipart", FieldFirst)}]
MCFormName == <<"form.txt">>
=============================================================================
