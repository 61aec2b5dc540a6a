------------------------------ MODULE CardTable ------------------------------
(***************************************************************************)
(* The table TB_USER_CARDS and the SQL statements that the card DAO runs   *)
(* on it (cardMapper.xml through SqlMapCardDao.java).  The table is a      *)
(* function from CARD_TOKEN to a row; every statement is an operator that  *)
(* takes the table and returns the new table or the selected rows.         *)
(*                                                                         *)
(* Every DAO call opens its own session, runs one statement and commits,   *)
(* so a statement is atomic and two statements of a handler never are.     *)
(***************************************************************************)

CONSTANTS
    Members,   \* values of MEMBER_ID
    Tokens,    \* values of CARD_TOKEN (UUIDs)
    Keys,      \* values of SECRET_KEY
    Nicks,     \* values of CARD_NICK
    Nil        \* no row, no memory entry, no ticket: the Java null

\* BILL_KEY holds the card's own token until KICC issues a billing key.
Bills == {"token", "issued"}

\* USE_FLAG: N after the insert, Y once KICC issued the key, D once deleted.
Flags == {"N", "Y", "D"}

\* The columns the handlers look at; SEQ, CNO, ISSUER_* and the dates are not.
Row == [token : Tokens, member : Members, bill : Bills,
        key : Keys, nick : Nicks, flag : Flags]

\* None of the values of a variable is mistaken for the absence of one.
ASSUME NilAssumption ==
    /\ Nil \notin Members \cup Tokens \cup Keys \cup Nicks
    /\ Nil \notin Row

Table == [Tokens -> Row \cup {Nil}]

\* The tokens that have a row; no statement ever removes one.
Stored(rows) == {t \in Tokens : rows[t] # Nil}

\* A mistaken INSERT: the SECRET_KEY column is left out.
addCardInfoNoKey(rows, t, m, k, nick) ==
    [rows EXCEPT ![t] = [token |-> t, member |-> m, bill |-> "token",
                         key |-> Nil, nick |-> nick, flag |-> "N"]]

\* INSERT of registCard step 1: BILL_KEY is the token, USE_FLAG its default.
addCardInfo(rows, t, m, k, nick) ==
    [rows EXCEPT ![t] = [token |-> t, member |-> m, bill |-> "token",
                         key |-> k, nick |-> nick, flag |-> "N"]]

\* SELECT ... WHERE MEMBER_ID = m AND USE_FLAG = "Y".
getUserCardList(rows, m) ==
    {t \in Stored(rows) : rows[t].member = m /\ rows[t].flag = "Y"}

\* A mistaken UPDATE, to keep deletions: USE_FLAG is never set back to N.
updateCardInfoKeepsFlag(rows, copy) ==
    [rows EXCEPT ![copy.token] =
        [copy EXCEPT !.flag = IF @ = "N" THEN rows[copy.token].flag ELSE @]]

\* UPDATE of every column of one row, by token, from the caller's copy.
updateCardInfo(rows, copy) == [rows EXCEPT ![copy.token] = copy]

\* A mistaken UPDATE: only the cards in use get the new key.
changePwdOfUsedCards(rows, m, k) ==
    [t \in Tokens |-> IF rows[t] # Nil /\ rows[t].member = m
                         /\ rows[t].flag = "Y"
                      THEN [rows[t] EXCEPT !.key = k]
                      ELSE rows[t]]

\* UPDATE of SECRET_KEY on all the rows of a member, whatever their flag.
changePwdSimplePay(rows, m, k) ==
    [t \in Tokens |-> IF rows[t] # Nil /\ rows[t].member = m
                      THEN [rows[t] EXCEPT !.key = k]
                      ELSE rows[t]]

=============================================================================
