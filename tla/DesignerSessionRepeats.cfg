SPECIFICATION SessionSpec
CONSTANT MaxLost = 1
PROPERTY CallsAnswered
