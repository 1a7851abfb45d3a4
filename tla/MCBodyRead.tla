----------------------------- MODULE MCBodyRead -----------------------------
(* A small instance of BodyRead: frames of zero, one and two bytes around a  *)
(* limit of three and a kept head of two.                                    *)
EXTENDS BodyRead

Letters  == {"a", "b"}
Frames   == {<< >>, <<"a">>, <<"b">>, <<"a", "b">>}

=============================================================================
