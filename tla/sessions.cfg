SPECIFICATION FairSpec
CONSTANTS
    Session = {s1}
    Request = {r1, r2}
INVARIANTS ServedWhileActive ForgottenForCause LoggedOutForGood
PROPERTIES ImplementsSessionWindow RequestsAnswered
CHECK_DEADLOCK FALSE
