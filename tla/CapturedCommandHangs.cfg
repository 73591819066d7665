SPECIFICATION CommandSpec
PROPERTY CommandAnswered
CHECK_DEADLOCK FALSE
